---- MODULE Spec2Model ----
(***************************************************************************)
(* Classification of tool-call payloads (ToolCallInfo and its display      *)
(* helpers).  A text is a sequence of one-character strings; a JSON value  *)
(* is a tagged record.  Every classifier is translated statement by        *)
(* statement, with JavaScript's exceptions made explicit: an operator that *)
(* can throw returns a record whose field `thrown` says whether it did.    *)
(***************************************************************************)
EXTENDS Integers, Sequences, FiniteSets, TLC

\* input, output: the props of ToolCallInfo; dataProp: the prop `data` of a display
\* component; pc: where the call is; res: what it produced.
VARIABLES input, output, dataProp, pc, res

vars == <<input, output, dataProp, pc, res>>

(***************************************************************************)
(* Characters.                                                             *)
(***************************************************************************)
QUOTE == "\""

BSL == "\\"

NL == "\n"

TAB == "\t"

CR == "\r"

\* U+0008 and U+000C, which TLA+ cannot write as one character.
BACKSPACE == "<BS>"

FORMFEED == "<FF>"

WhiteSpace == {" ", NL, TAB, CR}

Digits == {"0", "1", "2", "3", "4", "5", "6", "7", "8", "9"}

LowerCase == {"a", "b", "c", "d", "e", "f", "g", "h", "i", "j", "k", "l", "m",
              "n", "o", "p", "q", "r", "s", "t", "u", "v", "w", "x", "y", "z"}

UpperCase == {"A", "B", "C", "D", "E", "F", "G", "H", "I", "J", "K", "L", "M",
              "N", "O", "P", "Q", "R", "S", "T", "U", "V", "W", "X", "Y", "Z"}

\* The class \w of JavaScript regular expressions.
WordChar == LowerCase \cup UpperCase \cup Digits \cup {"_"}

UpperOf == [c \in LowerCase |->
    CASE c = "a" -> "A" [] c = "b" -> "B" [] c = "c" -> "C" [] c = "d" -> "D"
      [] c = "e" -> "E" [] c = "f" -> "F" [] c = "g" -> "G" [] c = "h" -> "H"
      [] c = "i" -> "I" [] c = "j" -> "J" [] c = "k" -> "K" [] c = "l" -> "L"
      [] c = "m" -> "M" [] c = "n" -> "N" [] c = "o" -> "O" [] c = "p" -> "P"
      [] c = "q" -> "Q" [] c = "r" -> "R" [] c = "s" -> "S" [] c = "t" -> "T"
      [] c = "u" -> "U" [] c = "v" -> "V" [] c = "w" -> "W" [] c = "x" -> "X"
      [] c = "y" -> "Y" [] c = "z" -> "Z"]

toUpperChar(c) == IF c \in LowerCase THEN UpperOf[c] ELSE c

DigitVal == [c \in Digits |->
    CASE c = "0" -> 0 [] c = "1" -> 1 [] c = "2" -> 2 [] c = "3" -> 3
      [] c = "4" -> 4 [] c = "5" -> 5 [] c = "6" -> 6 [] c = "7" -> 7
      [] c = "8" -> 8 [] c = "9" -> 9]

DigitChar == [n \in 0..9 |->
    CASE n = 0 -> "0" [] n = 1 -> "1" [] n = 2 -> "2" [] n = 3 -> "3"
      [] n = 4 -> "4" [] n = 5 -> "5" [] n = 6 -> "6" [] n = 7 -> "7"
      [] n = 8 -> "8" [] n = 9 -> "9"]

\* The element of a one-element set.  { e(x) : x \in {v} } names the value v
\* inside e, as a `const` declaration does: v is computed once.
The(S) == CHOOSE x \in S : TRUE

(***************************************************************************)
(* String methods of JavaScript, on texts.  Positions handed to and        *)
(* returned by these operators are JavaScript's (0-based).                 *)
(***************************************************************************)
MatchAt(s, p, i) ==
    /\ i >= 1
    /\ i + Len(p) - 1 <= Len(s)
    /\ \A j \in 1..Len(p) : s[i + j - 1] = p[j]

startsWith(s, p) == MatchAt(s, p, 1)

endsWith(s, p) == MatchAt(s, p, Len(s) - Len(p) + 1)

includes(s, p) == \E i \in 1..(Len(s) + 1) : MatchAt(s, p, i)

indexOf(s, p) ==
    IF includes(s, p)
    THEN (CHOOSE i \in 1..(Len(s) + 1) :
            MatchAt(s, p, i) /\ \A j \in 1..(i - 1) : ~MatchAt(s, p, j)) - 1
    ELSE -1

lastIndexOf(s, p) ==
    IF includes(s, p)
    THEN (CHOOSE i \in 1..(Len(s) + 1) :
            MatchAt(s, p, i) /\ \A j \in (i + 1)..(Len(s) + 1) : ~MatchAt(s, p, j)) - 1
    ELSE -1

\* s.substring(a, b) for 0 <= a <= b.
substring(s, a, b) == SubSeq(s, a + 1, IF b > Len(s) THEN Len(s) ELSE b)

trim(s) ==
    LET keep == {i \in 1..Len(s) : s[i] \notin WhiteSpace}
    IN  IF keep = {} THEN <<>>
        ELSE SubSeq(s, CHOOSE i \in keep : \A j \in keep : i <= j,
                       CHOOSE i \in keep : \A j \in keep : i >= j)

RECURSIVE replaceAll(_, _, _)
\* s.replace(/p/g, r) for a literal pattern p: leftmost first, each search
\* starting where the last match ended.
replaceAll(s, p, r) ==
    IF ~includes(s, p) THEN s
    ELSE The({ SubSeq(s, 1, i) \o r \o replaceAll(SubSeq(s, i + Len(p) + 1, Len(s)), p, r) :
               i \in {indexOf(s, p)} })

\* s.replace(p, r) for a string pattern p: the first occurrence only.
replaceFirst(s, p, r) ==
    LET i == indexOf(s, p)
    IN  IF i = -1 THEN s
        ELSE SubSeq(s, 1, i) \o r \o SubSeq(s, i + Len(p) + 1, Len(s))

RECURSIVE Concat(_)
\* the texts of ss, one after the other
Concat(ss) ==
    IF Len(ss) = 0 THEN <<>>
    ELSE IF Len(ss) = 1 THEN ss[1]
    ELSE Concat(SubSeq(ss, 1, Len(ss) \div 2)) \o Concat(SubSeq(ss, Len(ss) \div 2 + 1, Len(ss)))

(***************************************************************************)
(* JSON values, and undefined.                                             *)
(***************************************************************************)
JNull == [t |-> "null"]

Undefined == [t |-> "undefined"]

JBool(b) == [t |-> "bool", b |-> b]

JNum(n) == [t |-> "num", n |-> n]

JStr(s) == [t |-> "str", s |-> s]

JArr(items) == [t |-> "arr", items |-> items]

\* kv: the properties in insertion order, each [k |-> text, v |-> value].
JObj(kv) == [t |-> "obj", kv |-> kv]

JTrue == JBool(TRUE)

JFalse == JBool(FALSE)

isArray(v) == v.t = "arr"

\* typeof v === 'object'
isObjectType(v) == v.t \in {"obj", "arr", "null"}

isString(v) == v.t = "str"

truthy(v) ==
    CASE v.t = "null" -> FALSE
      [] v.t = "undefined" -> FALSE
      [] v.t = "bool" -> v.b
      [] v.t = "num" -> v.n # 0
      [] v.t = "str" -> v.s # <<>>
      [] OTHER -> TRUE

hasOwn(v, k) == v.t = "obj" /\ \E i \in 1..Len(v.kv) : v.kv[i].k = k

\* v[k] for a property name k, when v is neither null nor undefined.
prop(v, k) ==
    IF hasOwn(v, k)
    THEN v.kv[CHOOSE i \in 1..Len(v.kv) : v.kv[i].k = k].v
    ELSE Undefined

\* v[0]
first(v) == IF v.t = "arr" /\ Len(v.items) > 0 THEN v.items[1] ELSE Undefined

\* Reading a property of null or undefined throws a TypeError.
nullish(v) == v.t \in {"null", "undefined"}

\* 'k' in v, for an object (or array) v
inOp(v, k) == hasOwn(v, k)

setProp(kv, k, v) ==
    IF \E i \in 1..Len(kv) : kv[i].k = k
    THEN [i \in 1..Len(kv) |-> IF kv[i].k = k THEN [k |-> k, v |-> v] ELSE kv[i]]
    ELSE Append(kv, [k |-> k, v |-> v])

(***************************************************************************)
(* JSON.parse: a recursive-descent reading of the JSON grammar.  Each      *)
(* parse operator returns [ok, val, pos]: pos is the (1-based) position    *)
(* after what was read.  Numbers are integers; a fraction or an exponent   *)
(* is a bound of the model (no input holds one).                           *)
(***************************************************************************)
ParseFail == [ok |-> FALSE, val |-> JNull, pos |-> 0]

ParseOk(v, p) == [ok |-> TRUE, val |-> v, pos |-> p]

skipWs(s, i) ==
    CHOOSE j \in i..(Len(s) + 1) :
        /\ j = Len(s) + 1 \/ s[j] \notin WhiteSpace
        /\ \A k \in i..(j - 1) : s[k] \in WhiteSpace

\* the number of backslashes right before position j, counted back to `from`
backslashesBefore(s, from, j) ==
    j - 1 - (CHOOSE k \in (from - 1)..(j - 1) :
                /\ k = from - 1 \/ s[k] # BSL
                /\ \A m \in (k + 1)..(j - 1) : s[m] = BSL)

\* what an escape sequence stands for
Unescaped(c) ==
    CASE c = QUOTE -> QUOTE
      [] c = BSL -> BSL
      [] c = "/" -> "/"
      [] c = "n" -> NL
      [] c = "t" -> TAB
      [] c = "r" -> CR
      [] c = "b" -> BACKSPACE
      [] c = "f" -> FORMFEED

\* \uXXXX is left out: no input holds four hex digits after \u
EscapeChars == {QUOTE, BSL, "/", "n", "t", "r", "b", "f"}

RECURSIVE decodeString(_)
\* the characters a string literal's body stands for; ok = FALSE for a bad
\* escape or a bare control character
decodeString(body) ==
    IF \E i \in 1..Len(body) : body[i] \in {NL, TAB, CR, BACKSPACE, FORMFEED}
    THEN [ok |-> FALSE, s |-> <<>>]
    ELSE IF ~includes(body, <<BSL>>) THEN [ok |-> TRUE, s |-> body]
    ELSE The({ IF i + 2 > Len(body) \/ body[i + 2] \notin EscapeChars
               THEN [ok |-> FALSE, s |-> <<>>]
               ELSE The({ [ok |-> rest.ok,
                           s |-> SubSeq(body, 1, i) \o <<Unescaped(body[i + 2])>> \o rest.s] :
                          rest \in {decodeString(SubSeq(body, i + 3, Len(body)))} }) :
               i \in {indexOf(body, <<BSL>>)} })

\* The string literal whose opening quote is right before position j: its
\* closing quote is the first quote with an even number of backslashes before it.
scanString(s, j, acc) ==
    The({ IF closing = {} THEN ParseFail
          ELSE The({ The({ IF d.ok THEN ParseOk(JStr(acc \o d.s), e + 1) ELSE ParseFail :
                           d \in {decodeString(SubSeq(s, j, e - 1))} }) :
                     e \in {CHOOSE e \in closing : \A f \in closing : e <= f} }) :
          closing \in {{e \in j..Len(s) : s[e] = QUOTE /\ backslashesBefore(s, j, e) % 2 = 0}} })

RECURSIVE scanDigits(_, _, _)
scanDigits(s, j, acc) ==
    IF j <= Len(s) /\ s[j] \in Digits
    THEN scanDigits(s, j + 1, 10 * acc + DigitVal[s[j]])
    ELSE [val |-> acc, pos |-> j]

parseNumber(s, i) ==
    The({ IF d > Len(s) \/ s[d] \notin Digits THEN ParseFail
          ELSE IF s[d] = "0" THEN ParseOk(JNum(0), d + 1)
          ELSE The({ ParseOk(JNum(IF d > i THEN 0 - r.val ELSE r.val), r.pos) :
                     r \in {scanDigits(s, d, 0)} }) :
          d \in {IF s[i] = "-" THEN i + 1 ELSE i} })

RECURSIVE parseValue(_, _)
RECURSIVE parseMembers(_, _, _)
RECURSIVE parseElements(_, _, _)

\* After "{" or ",": "key" : value, then "," or "}".
parseMembers(s, i, acc) ==
    The({ IF k > Len(s) \/ s[k] # QUOTE THEN ParseFail
          ELSE The({ IF ~key.ok THEN ParseFail
                     ELSE The({ IF c > Len(s) \/ s[c] # ":" THEN ParseFail
                                ELSE The({ IF ~v.ok THEN ParseFail
                                           ELSE The({ IF e > Len(s) THEN ParseFail
                                                      ELSE IF s[e] = "}"
                                                           THEN ParseOk(JObj(setProp(acc, key.val.s, v.val)), e + 1)
                                                      ELSE IF s[e] = ","
                                                           THEN parseMembers(s, e + 1, setProp(acc, key.val.s, v.val))
                                                      ELSE ParseFail :
                                                      e \in {skipWs(s, v.pos)} }) :
                                           v \in {parseValue(s, c + 1)} }) :
                                c \in {skipWs(s, key.pos)} }) :
                     key \in {scanString(s, k + 1, <<>>)} }) :
          k \in {skipWs(s, i)} })

\* After "[" or ",": value, then "," or "]".
parseElements(s, i, acc) ==
    The({ IF ~v.ok THEN ParseFail
          ELSE The({ IF e > Len(s) THEN ParseFail
                     ELSE IF s[e] = "]" THEN ParseOk(JArr(Append(acc, v.val)), e + 1)
                     ELSE IF s[e] = "," THEN parseElements(s, e + 1, Append(acc, v.val))
                     ELSE ParseFail :
                     e \in {skipWs(s, v.pos)} }) :
          v \in {parseValue(s, i)} })

\* "{" was read at position k
parseObject(s, k) ==
    The({ IF m <= Len(s) /\ s[m] = "}" THEN ParseOk(JObj(<<>>), m + 1)
          ELSE parseMembers(s, k + 1, <<>>) :
          m \in {skipWs(s, k + 1)} })

\* "[" was read at position k
parseArray(s, k) ==
    The({ IF m <= Len(s) /\ s[m] = "]" THEN ParseOk(JArr(<<>>), m + 1)
          ELSE parseElements(s, k + 1, <<>>) :
          m \in {skipWs(s, k + 1)} })

parseValue(s, i) ==
    The({ IF k > Len(s) THEN ParseFail
          ELSE CASE s[k] = "{" -> parseObject(s, k)
                 [] s[k] = "[" -> parseArray(s, k)
                 [] s[k] = QUOTE -> scanString(s, k + 1, <<>>)
                 [] s[k] = "-" \/ s[k] \in Digits -> parseNumber(s, k)
                 [] MatchAt(s, <<"t", "r", "u", "e">>, k) -> ParseOk(JTrue, k + 4)
                 [] MatchAt(s, <<"f", "a", "l", "s", "e">>, k) -> ParseOk(JFalse, k + 5)
                 [] MatchAt(s, <<"n", "u", "l", "l">>, k) -> ParseOk(JNull, k + 4)
                 [] OTHER -> ParseFail :
          k \in {skipWs(s, i)} })

\* JSON.parse(text) for a string text: thrown = a SyntaxError.
JSONparse(s) ==
    The({ IF r.ok /\ skipWs(s, r.pos) = Len(s) + 1
          THEN [thrown |-> FALSE, val |-> r.val]
          ELSE [thrown |-> TRUE, val |-> Undefined] :
          r \in {parseValue(s, 1)} })

(***************************************************************************)
(* The property names and keywords the code names.                         *)
(***************************************************************************)
T_query == <<"q", "u", "e", "r", "y">>

T_code == <<"c", "o", "d", "e">>

T_success == <<"s", "u", "c", "c", "e", "s", "s">>

T_output == <<"o", "u", "t", "p", "u", "t">>

T_error == <<"e", "r", "r", "o", "r">>

T_plot == <<"p", "l", "o", "t">>

T_type == <<"t", "y", "p", "e">>

T_text == <<"t", "e", "x", "t">>

T_data == <<"d", "a", "t", "a">>

T_types == <<"t", "y", "p", "e", "s">>

T_aggregate == <<"a", "g", "g", "r", "e", "g", "a", "t", "e">>

T_count == <<"c", "o", "u", "n", "t">>

T_name == <<"n", "a", "m", "e">>

T_language == <<"l", "a", "n", "g", "u", "a", "g", "e">>

T_python == <<"p", "y", "t", "h", "o", "n">>

T___schema == <<"_", "_", "s", "c", "h", "e", "m", "a">>

T_queryType == <<"q", "u", "e", "r", "y", "T", "y", "p", "e">>

T_mutationType == <<"m", "u", "t", "a", "t", "i", "o", "n", "T", "y", "p", "e">>

T_subscriptionType == <<"s", "u", "b", "s", "c", "r", "i", "p", "t", "i", "o", "n", "T", "y", "p", "e">>

T_schema == <<"s", "c", "h", "e", "m", "a">>

T_mutation == <<"m", "u", "t", "a", "t", "i", "o", "n">>

T_subscription == <<"s", "u", "b", "s", "c", "r", "i", "p", "t", "i", "o", "n">>

T_enum == <<"e", "n", "u", "m">>

T_directive == <<"d", "i", "r", "e", "c", "t", "i", "v", "e">>

(***************************************************************************)
(* String(v) and JSON.stringify.                                           *)
(***************************************************************************)
RECURSIVE natToText(_)
natToText(n) ==
    IF n < 10 THEN <<DigitChar[n]>>
    ELSE natToText(n \div 10) \o <<DigitChar[n % 10]>>

numToText(n) == IF n < 0 THEN <<"-">> \o natToText(0 - n) ELSE natToText(n)

RECURSIVE toStringJS(_)
RECURSIVE joinItems(_)
\* Array.prototype.join(','): null and undefined elements give the empty text.
joinItems(items) ==
    IF items = <<>> THEN <<>>
    ELSE (IF nullish(items[1]) THEN <<>> ELSE toStringJS(items[1]))
         \o (IF Len(items) > 1 THEN <<",">> \o joinItems(Tail(items)) ELSE <<>>)

\* String(v): what JSON.parse makes of an argument that is not a string.
toStringJS(v) ==
    CASE v.t = "str" -> v.s
      [] v.t = "null" -> <<"n", "u", "l", "l">>
      [] v.t = "undefined" -> <<"u", "n", "d", "e", "f", "i", "n", "e", "d">>
      [] v.t = "bool" -> IF v.b THEN <<"t", "r", "u", "e">> ELSE <<"f", "a", "l", "s", "e">>
      [] v.t = "num" -> numToText(v.n)
      [] v.t = "arr" -> joinItems(v.items)
      [] OTHER -> <<"[", "o", "b", "j", "e", "c", "t", " ", "O", "b", "j", "e", "c", "t", "]">>

\* JSON.parse(v) for any value v.
JSONparseValue(v) == JSONparse(toStringJS(v))

\* the characters of s as JSON.stringify writes them inside quotes
quoteChars(s) ==
    Concat([i \in 1..Len(s) |->
              CASE s[i] = QUOTE -> <<BSL, QUOTE>>
                [] s[i] = BSL -> <<BSL, BSL>>
                [] s[i] = NL -> <<BSL, "n">>
                [] s[i] = TAB -> <<BSL, "t">>
                [] s[i] = CR -> <<BSL, "r">>
                [] s[i] = BACKSPACE -> <<BSL, "b">>
                [] s[i] = FORMFEED -> <<BSL, "f">>
                [] OTHER -> <<s[i]>>])

quoteText(s) == <<QUOTE>> \o quoteChars(s) \o <<QUOTE>>

spaces(n) == [i \in 1..n |-> " "]

RECURSIVE stringify(_, _, _)
RECURSIVE stringifyItems(_, _, _)
RECURSIVE stringifyMembers(_, _, _)
\* The elements, each on its own line at indentation `level` (gap > 0), or
\* separated by commas alone (gap = 0).
stringifyItems(items, gap, level) ==
    IF items = <<>> THEN <<>>
    ELSE (IF gap > 0 THEN <<NL>> \o spaces(level) ELSE <<>>)
         \o stringify(items[1], gap, level)
         \o (IF Len(items) > 1 THEN <<",">> ELSE <<>>)
         \o stringifyItems(Tail(items), gap, level)

stringifyMembers(kv, gap, level) ==
    IF kv = <<>> THEN <<>>
    ELSE (IF gap > 0 THEN <<NL>> \o spaces(level) ELSE <<>>)
         \o quoteText(kv[1].k) \o <<":">> \o (IF gap > 0 THEN <<" ">> ELSE <<>>)
         \o stringify(kv[1].v, gap, level)
         \o (IF Len(kv) > 1 THEN <<",">> ELSE <<>>)
         \o stringifyMembers(Tail(kv), gap, level)

\* JSON.stringify(v, null, gap) of a JSON value, written at indentation `level`.
stringify(v, gap, level) ==
    CASE v.t = "null" -> <<"n", "u", "l", "l">>
      [] v.t = "bool" -> IF v.b THEN <<"t", "r", "u", "e">> ELSE <<"f", "a", "l", "s", "e">>
      [] v.t = "num" -> numToText(v.n)
      [] v.t = "str" -> quoteText(v.s)
      [] v.t = "arr" ->
            IF v.items = <<>> THEN <<"[", "]">>
            ELSE <<"[">> \o stringifyItems(v.items, gap, level + gap)
                 \o (IF gap > 0 THEN <<NL>> \o spaces(level) ELSE <<>>) \o <<"]">>
      [] OTHER ->
            IF v.kv = <<>> THEN <<"{", "}">>
            ELSE <<"{">> \o stringifyMembers(v.kv, gap, level + gap)
                 \o (IF gap > 0 THEN <<NL>> \o spaces(level) ELSE <<>>) \o <<"}">>

\* JSON.stringify(v)
JSONstringify(v) == stringify(v, 0, 0)

\* JSON.stringify(v, null, 2)
JSONstringifyPretty(v) == stringify(v, 2, 0)


(***************************************************************************)
(* Outcomes of a block of statements: it threw, it returned val, or it     *)
(* ran to its end.  A function hands its caller [thrown, val].             *)
(***************************************************************************)
Threw == [thrown |-> TRUE, returned |-> FALSE, val |-> Undefined]

Return(v) == [thrown |-> FALSE, returned |-> TRUE, val |-> v]

FellThrough == [thrown |-> FALSE, returned |-> FALSE, val |-> Undefined]

\* try { block } catch { } followed by `rest`
TryCatch(block, rest) == The({ IF b.returned THEN b ELSE rest : b \in {block} })

\* Object.values(v)
values(v) ==
    CASE v.t = "obj" -> [i \in 1..Len(v.kv) |-> v.kv[i].v]
      [] v.t = "arr" -> v.items
      [] OTHER -> <<>>

\* Object.keys(v)
keys(v) ==
    CASE v.t = "obj" -> [i \in 1..Len(v.kv) |-> v.kv[i].k]
      [] v.t = "arr" -> [i \in 1..Len(v.items) |-> natToText(i - 1)]
      [] v.t = "str" -> [i \in 1..Len(v.s) |-> natToText(i - 1)]
      [] OTHER -> <<>>

\* Object.entries(v)
entries(v) ==
    CASE v.t = "obj" -> v.kv
      [] v.t = "arr" -> [i \in 1..Len(v.items) |-> [k |-> natToText(i - 1), v |-> v.items[i]]]
      [] v.t = "str" -> [i \in 1..Len(v.s) |-> [k |-> natToText(i - 1), v |-> JStr(<<v.s[i]>>)]]
      [] OTHER -> <<>>

T_length == <<"l", "e", "n", "g", "t", "h">>

T_constructor == <<"c", "o", "n", "s", "t", "r", "u", "c", "t", "o", "r">>

T_toString == <<"t", "o", "S", "t", "r", "i", "n", "g">>

\* property names every value inherits from its prototype (two of them)
InheritedKeys == {T_constructor, T_toString}

\* the function found under an inherited name: v.constructor is the
\* constructor of v's type, v.toString the method of that name
inherited(v, k) ==
    IF k \in InheritedKeys /\ v.t \notin {"null", "undefined"}
    THEN [t |-> "function",
          name |-> IF k = T_constructor
                   THEN CASE v.t = "obj" -> <<"O", "b", "j", "e", "c", "t">>
                          [] v.t = "arr" -> <<"A", "r", "r", "a", "y">>
                          [] v.t = "str" -> <<"S", "t", "r", "i", "n", "g">>
                          [] v.t = "num" -> <<"N", "u", "m", "b", "e", "r">>
                          [] v.t = "bool" -> <<"B", "o", "o", "l", "e", "a", "n">>
                          [] OTHER -> <<"F", "u", "n", "c", "t", "i", "o", "n">>
                   ELSE k]
    ELSE Undefined

\* v[k] for a property name k and any v that is neither null nor undefined:
\* the own property of that name, else the inherited one
member(v, k) ==
    CASE v.t = "obj" -> IF hasOwn(v, k) THEN prop(v, k) ELSE inherited(v, k)
      [] v.t = "arr" ->
            IF k = T_length THEN JNum(Len(v.items))
            ELSE IF \E i \in 1..Len(v.items) : natToText(i - 1) = k
                 THEN v.items[CHOOSE i \in 1..Len(v.items) : natToText(i - 1) = k]
                 ELSE inherited(v, k)
      [] v.t = "str" ->
            IF k = T_length THEN JNum(Len(v.s))
            ELSE IF \E i \in 1..Len(v.s) : natToText(i - 1) = k
                 THEN JStr(<<v.s[CHOOSE i \in 1..Len(v.s) : natToText(i - 1) = k]>>)
                 ELSE inherited(v, k)
      [] OTHER -> inherited(v, k)

\* !text, for text a string, null or undefined
noText(text) == ~text.present \/ text.s = <<>>

Absent == [present |-> FALSE, s |-> <<>>]

Text(s) == [present |-> TRUE, s |-> s]

(***************************************************************************)
(* getGraphQLQueryData                                                      *)
(***************************************************************************)
\* the try block with typeof parsed === 'string' in place of 'object'
getGraphQLQueryData_try_typeofString(text) ==
    The({ LET parsed == p.val
          IN  IF p.thrown THEN Threw
              ELSE IF /\ truthy(parsed)
                      /\ isString(parsed)
                      /\ truthy(prop(parsed, T_query))
                      /\ isString(prop(parsed, T_query))
                   THEN Return(parsed)
                   ELSE FellThrough :
          p \in {JSONparse(text)} })

getGraphQLQueryData_try(text) ==
    The({ LET parsed == p.val
          IN  IF p.thrown THEN Threw
              ELSE IF /\ truthy(parsed)
                      /\ isObjectType(parsed)
                      /\ truthy(prop(parsed, T_query))
                      /\ isString(prop(parsed, T_query))
                   THEN Return(parsed)
                   ELSE FellThrough :
          p \in {JSONparse(text)} })

getGraphQLQueryData(text) == TryCatch(getGraphQLQueryData_try(text), Return(JNull))

(***************************************************************************)
(* getPythonCodeData                                                        *)
(***************************************************************************)
\* /^\s*#/.test(code)
startsWithComment(code) ==
    \E i \in 1..Len(code) : code[i] = "#" /\ \A j \in 1..(i - 1) : code[j] \in WhiteSpace

looksLikePython(code) ==
    \/ includes(code, <<"i", "m", "p", "o", "r", "t", " ">>)
    \/ includes(code, <<"d", "e", "f", " ">>)
    \/ includes(code, <<"p", "r", "i", "n", "t", "(">>)
    \/ includes(code, <<"p", "l", "t", ".">>)
    \/ includes(code, <<"n", "p", ".">>)
    \/ includes(code, <<"p", "d", ".">>)
    \/ includes(code, <<"=">>)
    \/ startsWithComment(code)

getPythonCodeData_try(text) ==
    The({ LET parsed == p.val
          IN  IF p.thrown THEN Threw
              ELSE IF /\ truthy(parsed)
                      /\ isObjectType(parsed)
                      /\ truthy(prop(parsed, T_code))
                      /\ isString(prop(parsed, T_code))
                      /\ looksLikePython(prop(parsed, T_code).s)
                   THEN Return(JObj(setProp(parsed.kv, T_language, JStr(T_python))))
                   ELSE FellThrough :
          p \in {JSONparse(text)} })

getPythonCodeData(text) == TryCatch(getPythonCodeData_try(text), Return(JNull))

\* PythonCodeDisplay's formattedCode:
\* data.code.replace(/\\n/g, '\n').replace(/\\"/g, '"').replace(/\\t/g, '  ')
formatCode(code) ==
    The({ replaceAll(b, <<BSL, "t">>, <<" ", " ">>) :
          b \in { replaceAll(a, <<BSL, QUOTE>>, <<QUOTE>>) :
          a \in { replaceAll(code, <<BSL, "n">>, <<NL>>) } } })

(***************************************************************************)
(* getTabularData                                                           *)
(***************************************************************************)
\* Array.isArray(value) && value.length > 0 && typeof value[0] === 'object' && value[0] !== null
isRowArray(value) ==
    /\ isArray(value)
    /\ Len(value.items) > 0
    /\ isObjectType(value.items[1])
    /\ value.items[1].t # "null"

\* value && typeof value === 'object' && 'aggregate' in value
isAggregate(value) == truthy(value) /\ isObjectType(value) /\ inOp(value, T_aggregate)

\* Object.values(v).some applied to the array-of-objects test
someRowArray(v) == \E i \in 1..Len(values(v)) : isRowArray(values(v)[i])

\* Object.values(v).some applied to the aggregate test
someAggregate(v) == \E i \in 1..Len(values(v)) : isAggregate(values(v)[i])

\* the inner try block: the text envelope's payload
getTabularData_inner(elem) ==
    The({ LET innerData == p.val
          IN  IF p.thrown THEN Threw
              ELSE IF truthy(innerData) /\ isObjectType(innerData)
                   THEN IF truthy(prop(innerData, T_data)) /\ isObjectType(prop(innerData, T_data))
                        THEN Return(prop(innerData, T_data))
                        ELSE IF someRowArray(innerData)
                             THEN Return(innerData)
                             ELSE FellThrough
                   ELSE FellThrough :
          p \in {JSONparseValue(prop(elem, T_text))} })

getTabularData_direct(parsed) ==
    IF /\ truthy(parsed) /\ isObjectType(parsed)
       /\ someRowArray(parsed) \/ someAggregate(parsed)
    THEN Return(parsed)
    ELSE IF isRowArray(parsed)
         THEN Return(JObj(<<[k |-> T_data, v |-> parsed]>>))
         ELSE FellThrough

getTabularData_try(text) ==
    The({ LET parsed == p.val
          IN  IF p.thrown THEN Threw
              ELSE IF /\ truthy(parsed) /\ isObjectType(parsed)
                      /\ truthy(prop(parsed, T_data)) /\ isObjectType(prop(parsed, T_data))
                   THEN Return(prop(parsed, T_data))
              ELSE IF isArray(parsed) /\ Len(parsed.items) > 0
                   THEN IF nullish(parsed.items[1]) THEN Threw
                        ELSE IF prop(parsed.items[1], T_type) = JStr(T_text)
                             THEN TryCatch(getTabularData_inner(parsed.items[1]),
                                           getTabularData_direct(parsed))
                             ELSE getTabularData_direct(parsed)
              ELSE getTabularData_direct(parsed) :
          p \in {JSONparse(text)} })

\* getTabularData without its try/catch: what the body throws reaches the caller
getTabularData_uncaught(text) ==
    IF noText(text) THEN Return(JNull)
    ELSE The({ IF t.returned \/ t.thrown THEN t ELSE Return(JNull) :
               t \in {getTabularData_try(text.s)} })

getTabularData(text) ==
    IF noText(text) THEN Return(JNull)
    ELSE TryCatch(getTabularData_try(text.s), Return(JNull))

(***************************************************************************)
(* getGraphQLSchemaData                                                     *)
(***************************************************************************)
\* value is neither null nor undefined here
\* the test with a types array that must not be empty
hasSchemaStructure_typesNonEmpty(value) ==
    \/ truthy(prop(value, T___schema))
    \/ truthy(prop(value, T_data)) /\ truthy(prop(prop(value, T_data), T___schema))
    \/ /\ truthy(prop(value, T_types)) /\ isArray(prop(value, T_types))
       /\ Len(prop(value, T_types).items) > 0
    \/ truthy(prop(value, T_queryType))
    \/ truthy(prop(value, T_mutationType))
    \/ truthy(prop(value, T_subscriptionType))

hasSchemaStructure(value) ==
    \/ truthy(prop(value, T___schema))
    \/ truthy(prop(value, T_data)) /\ truthy(prop(prop(value, T_data), T___schema))
    \/ truthy(prop(value, T_types)) /\ isArray(prop(value, T_types))
    \/ truthy(prop(value, T_queryType))
    \/ truthy(prop(value, T_mutationType))
    \/ truthy(prop(value, T_subscriptionType))

getGraphQLSchemaData_inner(elem) ==
    The({ LET innerData == p.val
          IN  IF p.thrown \/ nullish(innerData) THEN Threw
              ELSE IF hasSchemaStructure(innerData) THEN Return(innerData)
              ELSE FellThrough :
          p \in {JSONparseValue(prop(elem, T_text))} })

getGraphQLSchemaData_try(text) ==
    The({ LET parsed == p.val
          IN  IF p.thrown \/ nullish(parsed) THEN Threw
              ELSE IF hasSchemaStructure(parsed) THEN Return(parsed)
              ELSE IF isArray(parsed) /\ Len(parsed.items) > 0
                   THEN IF nullish(parsed.items[1]) THEN Threw
                        ELSE IF prop(parsed.items[1], T_type) = JStr(T_text)
                             THEN TryCatch(getGraphQLSchemaData_inner(parsed.items[1]), FellThrough)
                             ELSE FellThrough
              ELSE FellThrough :
          p \in {JSONparse(text)} })

getGraphQLSchemaData(text) ==
    IF noText(text) THEN Return(JNull)
    ELSE TryCatch(getGraphQLSchemaData_try(text.s), Return(JNull))

(***************************************************************************)
(* getGraphQLSDLData                                                        *)
(***************************************************************************)
\* v.includes(word): String.prototype.includes, Array.prototype.includes, or
\* a TypeError when v has no such method.
hasIncludes(v) == v.t \in {"str", "arr"}

includesJS(v, word) ==
    IF v.t = "str" THEN includes(v.s, word)
    ELSE \E i \in 1..Len(v.items) : v.items[i] = JStr(word)

\* if (schemaText.includes('schema') && schemaText.includes('type')) return parsed;
sdlTextCheck(schemaText, parsed, rest) ==
    IF ~hasIncludes(schemaText) THEN Threw
    ELSE IF includesJS(schemaText, T_schema) /\ includesJS(schemaText, T_type)
         THEN Return(parsed)
         ELSE rest

getGraphQLSDLData_textProp(parsed) ==
    IF nullish(parsed) THEN Threw
    ELSE IF truthy(prop(parsed, T_text)) /\ isString(prop(parsed, T_text))
         THEN sdlTextCheck(prop(parsed, T_text), parsed, FellThrough)
         ELSE FellThrough

getGraphQLSDLData_try(text) ==
    The({ LET parsed == p.val
          IN  IF p.thrown THEN Threw
              ELSE IF isArray(parsed) /\ Len(parsed.items) > 0
                   THEN IF nullish(parsed.items[1]) THEN Threw
                        ELSE IF /\ prop(parsed.items[1], T_type) = JStr(T_text)
                                /\ truthy(prop(parsed.items[1], T_text))
                             THEN sdlTextCheck(prop(parsed.items[1], T_text), parsed,
                                               getGraphQLSDLData_textProp(parsed))
                             ELSE getGraphQLSDLData_textProp(parsed)
              ELSE getGraphQLSDLData_textProp(parsed) :
          p \in {JSONparse(text)} })

getGraphQLSDLData(text) ==
    IF noText(text) THEN Return(JNull)
    ELSE TryCatch(getGraphQLSDLData_try(text.s), Return(JNull))


(***************************************************************************)
(* getPythonResultData                                                      *)
(***************************************************************************)
\* a gate that looks for the success marker only
hasPythonResultPattern_successOnly(text) ==
    includes(text, <<QUOTE, "s", "u", "c", "c", "e", "s", "s", QUOTE>>) \/ includes(text, <<BSL, QUOTE, "s", "u", "c", "c", "e", "s", "s", BSL, QUOTE>>)

hasPythonResultPattern(text) ==
    /\ includes(text, <<QUOTE, "s", "u", "c", "c", "e", "s", "s", QUOTE>>) \/ includes(text, <<BSL, QUOTE, "s", "u", "c", "c", "e", "s", "s", BSL, QUOTE>>)
    /\ \/ includes(text, <<QUOTE, "p", "l", "o", "t", QUOTE>>) \/ includes(text, <<BSL, QUOTE, "p", "l", "o", "t", BSL, QUOTE>>)
       \/ includes(text, <<QUOTE, "o", "u", "t", "p", "u", "t", QUOTE>>) \/ includes(text, <<BSL, QUOTE, "o", "u", "t", "p", "u", "t", BSL, QUOTE>>)
       \/ includes(text, <<QUOTE, "e", "r", "r", "o", "r", QUOTE>>) \/ includes(text, <<BSL, QUOTE, "e", "r", "r", "o", "r", BSL, QUOTE>>)

\* v.success !== undefined && (v.output !== undefined || v.error !== undefined
\* || v.plot !== undefined), for v an object
isPythonResult(v) ==
    /\ truthy(v)
    /\ isObjectType(v)
    /\ prop(v, T_success) # Undefined
    /\ \/ prop(v, T_output) # Undefined
       \/ prop(v, T_error) # Undefined
       \/ prop(v, T_plot) # Undefined

\* v && typeof v === 'object' && v.success !== undefined
hasSuccess(v) == truthy(v) /\ isObjectType(v) /\ prop(v, T_success) # Undefined

\* the cleanup without its last step, which halves the backslashes
cleanInnerText_keepBackslashes(s) ==
    The({ replaceAll(b, <<BSL, "t">>, <<TAB>>) :
          b \in { replaceAll(a, <<BSL, QUOTE>>, <<QUOTE>>) :
          a \in { replaceAll(s, <<BSL, "n">>, <<NL>>) } } })

\* .replace(/\\n/g, '\n').replace(/\\"/g, '"').replace(/\\t/g, '\t').replace(/\\\\/g, '\\')
cleanInnerText(s) ==
    The({ replaceAll(c, <<BSL, BSL>>, <<BSL>>) :
          c \in { replaceAll(b, <<BSL, "t">>, <<TAB>>) :
          b \in { replaceAll(a, <<BSL, QUOTE>>, <<QUOTE>>) :
          a \in { replaceAll(s, <<BSL, "n">>, <<NL>>) } } } })

\* .replace(/\\"/g, '"').replace(/\\n/g, '\n').replace(/\\t/g, '\t').replace(/\\\\/g, '\\')
unescapeExtracted(s) ==
    The({ replaceAll(c, <<BSL, BSL>>, <<BSL>>) :
          c \in { replaceAll(b, <<BSL, "t">>, <<TAB>>) :
          b \in { replaceAll(a, <<BSL, "n">>, <<NL>>) :
          a \in { replaceAll(s, <<BSL, QUOTE>>, <<QUOTE>>) } } } })

\* try { innerData = JSON.parse(innerText) } catch { innerText = innerText.replace ...;
\* innerData = JSON.parse(innerText) }
parseInnerText(innerText) ==
    The({ IF direct.thrown THEN JSONparse(cleanInnerText(innerText)) ELSE direct :
          direct \in {JSONparse(innerText)} })

\* extractedJson = extractedJson.replace ...; const innerData = JSON.parse(extractedJson)
parseExtracted(extractedJson) == JSONparse(unescapeExtracted(extractedJson))

\* the try block around the envelope's inner text
pythonResult_inner(innerText) ==
    The({ LET innerData == r.val
          IN  IF r.thrown THEN Threw
              ELSE IF isPythonResult(innerData) THEN Return(innerData)
              ELSE FellThrough :
          r \in {parseInnerText(innerText)} })

\* if (Array.isArray(parsed) && parsed.length > 0) { ... }
pythonResult_array(parsed) ==
    LET elem == parsed.items[1]
    IN  IF nullish(elem) THEN Threw
        ELSE IF prop(elem, T_type) = JStr(T_text) /\ truthy(prop(elem, T_text))
             THEN \* parsed[0].text.substring(0, 200) is logged before the try
                  IF ~isString(prop(elem, T_text)) THEN Threw
                  ELSE TryCatch(pythonResult_inner(prop(elem, T_text).s), FellThrough)
             ELSE IF prop(elem, T_success) # Undefined THEN Return(elem)
             ELSE FellThrough

\* the outer try block
pythonResult_try(text) ==
    The({ LET parsed == p.val
          IN  IF p.thrown THEN Threw
              ELSE The({ IF a.thrown \/ a.returned THEN a
                         ELSE IF isPythonResult(parsed) THEN Return(parsed)
                         ELSE FellThrough :
                         a \in {IF isArray(parsed) /\ Len(parsed.items) > 0
                                THEN pythonResult_array(parsed)
                                ELSE FellThrough} }) :
          p \in {JSONparse(text)} })

\* The for loop looking for the closing quote, from i = textFieldStart on
\* (0-based): escapeCount is the number of backslashes since the last other
\* character; the loop stops at the first quote with an even escapeCount.  The
\* result is textFieldEnd, which stays at textFieldStart when the loop runs out
\* of text.
textFieldScan(s, textFieldStart) ==
    The({ IF stops = {} THEN textFieldStart
          ELSE (CHOOSE e \in stops : \A f \in stops : e <= f) - 1 :
          stops \in {{e \in (textFieldStart + 1)..Len(s) :
                        s[e] = QUOTE /\ backslashesBefore(s, textFieldStart + 1, e) % 2 = 0}} })

\* if (cleanedText.startsWith('[') && cleanedText.includes('"type":"text"')) { ... }
pythonResult_extract(cleanedText) ==
    IF startsWith(cleanedText, <<"[">>) /\ includes(cleanedText, <<QUOTE, "t", "y", "p", "e", QUOTE, ":", QUOTE, "t", "e", "x", "t", QUOTE>>)
    THEN The({ The({ IF textFieldStart > 7 /\ textFieldEnd > textFieldStart
                     THEN The({ IF p.thrown THEN Threw
                                ELSE IF hasSuccess(p.val) THEN Return(p.val)
                                ELSE FellThrough :
                                p \in {parseExtracted(
                                          substring(cleanedText, textFieldStart, textFieldEnd))} })
                     ELSE FellThrough :
                     textFieldEnd \in {textFieldScan(cleanedText, textFieldStart)} }) :
               textFieldStart \in {indexOf(cleanedText, <<QUOTE, "t", "e", "x", "t", QUOTE, ":", QUOTE>>) + 8} })
    ELSE FellThrough

\* the text handed to JSON.parse by the brace repair
repairBraces(cleanedText) ==
    IF ~endsWith(cleanedText, <<"}">>)
    THEN LET lastCompleteField == lastIndexOf(cleanedText, <<QUOTE, "}">>)
         IN  IF lastCompleteField # -1
             THEN substring(cleanedText, 0, lastCompleteField + 2) \o <<"}">>
             ELSE cleanedText \o <<"}">>
    ELSE cleanedText

\* if (cleanedText.startsWith('{')) { ... }
pythonResult_repair(cleanedText) ==
    IF startsWith(cleanedText, <<"{">>)
    THEN The({ IF p.thrown THEN Threw
               ELSE IF hasSuccess(p.val) THEN Return(p.val)
               ELSE FellThrough :
               p \in {JSONparse(repairBraces(cleanedText))} })
    ELSE FellThrough

\* the try block inside catch (parseError)
pythonResult_catch(text) ==
    The({ The({ IF e.thrown \/ e.returned THEN e ELSE pythonResult_repair(cleanedText) :
                e \in {pythonResult_extract(cleanedText)} }) :
          cleanedText \in {trim(text)} })

getPythonResultData(text) ==
    IF noText(text) THEN Return(JNull)
    ELSE IF ~hasPythonResultPattern(text.s) THEN Return(JNull)
    ELSE The({ IF t.returned THEN t
               ELSE IF t.thrown THEN TryCatch(pythonResult_catch(text.s), Return(JNull))
               ELSE Return(JNull) :
               t \in {pythonResult_try(text.s)} })

(***************************************************************************)
(* The parses and repairs a call of getPythonResultData attempts, in       *)
(* order: "parse" is JSON.parse(text), "parseInner" JSON.parse(innerText), *)
(* "cleanInner" the parse of the cleaned inner text, "extract" the parse   *)
(* of the extracted text field, "repair" the parse of the brace repair.    *)
(***************************************************************************)
\* the parses of the envelope's inner text, for a text that JSON.parse accepts
innerAttempts(parsed) ==
    IF isArray(parsed) /\ Len(parsed.items) > 0
    THEN The({ IF /\ ~nullish(elem)
                  /\ prop(elem, T_type) = JStr(T_text)
                  /\ truthy(prop(elem, T_text))
                  /\ isString(prop(elem, T_text))
               THEN <<"parseInner">>
                    \o (IF JSONparse(prop(elem, T_text).s).thrown THEN <<"cleanInner">> ELSE <<>>)
               ELSE <<>> :
               elem \in {parsed.items[1]} })
    ELSE <<>>

\* the extraction reaches const innerData = JSON.parse(extractedJson)
extractionAttempted(cleanedText) ==
    /\ startsWith(cleanedText, <<"[">>)
    /\ includes(cleanedText, <<QUOTE, "t", "y", "p", "e", QUOTE, ":", QUOTE, "t", "e", "x", "t", QUOTE>>)
    /\ \E textFieldStart \in {indexOf(cleanedText, <<QUOTE, "t", "e", "x", "t", QUOTE, ":", QUOTE>>) + 8} :
          /\ textFieldStart > 7
          /\ textFieldScan(cleanedText, textFieldStart) > textFieldStart

\* the attempts of the catch block
recoveryAttempts(text) ==
    The({ The({ (IF extractionAttempted(cleanedText) THEN <<"extract">> ELSE <<>>)
                \o (IF ~e.thrown /\ ~e.returned /\ startsWith(cleanedText, <<"{">>)
                    THEN <<"repair">> ELSE <<>>) :
                e \in {pythonResult_extract(cleanedText)} }) :
          cleanedText \in {trim(text)} })

pythonResultAttempts(text) ==
    IF noText(text) THEN <<>>
    ELSE IF ~hasPythonResultPattern(text.s) THEN <<>>
    ELSE The({ <<"parse">>
               \o (IF p.thrown THEN <<>> ELSE innerAttempts(p.val))
               \o (IF pythonResult_try(text.s).thrown THEN recoveryAttempts(text.s) ELSE <<>>) :
               p \in {JSONparse(text.s)} })


(***************************************************************************)
(* formatText and QueryDisplay                                              *)
(***************************************************************************)
\* formatText unescaping the text it could not parse
formatText_unescaping(text) ==
    The({ IF p.thrown THEN cleanInnerText(text) ELSE JSONstringifyPretty(p.val) :
          p \in {JSONparse(text)} })

formatText(text) ==
    The({ IF p.thrown THEN text ELSE JSONstringifyPretty(p.val) : p \in {JSONparse(text)} })

\* /\b(SELECT|INSERT|UPDATE|DELETE|CREATE|DROP|ALTER|WITH)\b/i
SQLKeywords ==
    { <<"S", "E", "L", "E", "C", "T">>,
      <<"I", "N", "S", "E", "R", "T">>,
      <<"U", "P", "D", "A", "T", "E">>,
      <<"D", "E", "L", "E", "T", "E">>,
      <<"C", "R", "E", "A", "T", "E">>,
      <<"D", "R", "O", "P">>,
      <<"A", "L", "T", "E", "R">>,
      <<"W", "I", "T", "H">> }

\* the keyword matches the text at (1-based) position i, letter case ignored
MatchAtIgnoreCase(s, word, i) ==
    /\ i + Len(word) - 1 <= Len(s)
    /\ \A j \in 1..Len(word) : toUpperChar(s[i + j - 1]) = word[j]

\* \b between positions i - 1 and i: exactly one of the two is a word character
wordBoundary(s, i) ==
    (i > 1 /\ s[i - 1] \in WordChar) # (i <= Len(s) /\ s[i] \in WordChar)

hasSQLKeyword(s) ==
    \E word \in SQLKeywords : \E i \in 1..Len(s) :
        /\ wordBoundary(s, i)
        /\ MatchAtIgnoreCase(s, word, i)
        /\ wordBoundary(s, i + Len(word))

hasGraphQLQuery(data) ==
    /\ truthy(prop(data, T_query))
    /\ isString(prop(data, T_query))
    /\ \E q \in {prop(data, T_query).s} : \E t \in {trim(q)} :
           \/ startsWith(t, T_query)
           \/ startsWith(t, T_mutation)
           \/ startsWith(t, T_subscription)
           \/ includes(q, <<"{">>) /\ includes(q, <<"}">>)

hasSQLQuery(data) ==
    /\ truthy(prop(data, T_query))
    /\ isString(prop(data, T_query))
    /\ hasSQLKeyword(prop(data, T_query).s)

hasQuery(data) == truthy(prop(data, T_query)) /\ isString(prop(data, T_query))

\* .replace(/\\n/g, '\n').replace(/\\"/g, '"').replace(/\\t/g, '  ')
formatQuery(q) ==
    The({ replaceAll(b, <<BSL, "t">>, <<" ", " ">>) :
          b \in { replaceAll(a, <<BSL, QUOTE>>, <<QUOTE>>) :
          a \in { replaceAll(q, <<BSL, "n">>, <<NL>>) } } })

\* the two tests in the other order
queryTypeOf_sqlFirst(data) ==
    IF hasSQLQuery(data) THEN "SQL Query"
    ELSE IF hasGraphQLQuery(data) THEN "GraphQL Query"
    ELSE "Query"

\* let queryType = 'Query'; if (hasGraphQLQuery) ... else if (hasSQLQuery) ...
queryTypeOf(data) ==
    IF hasGraphQLQuery(data) THEN "GraphQL Query"
    ELSE IF hasSQLQuery(data) THEN "SQL Query"
    ELSE "Query"

RECURSIVE without(_, _)
\* the properties other than k, in order
without(kv, k) ==
    IF kv = <<>> THEN <<>>
    ELSE (IF kv[1].k = k THEN <<>> ELSE <<kv[1]>>) \o without(Tail(kv), k)

NotRendered == [rendered |-> FALSE, queryType |-> "", formattedQuery |-> <<>>,
                otherProps |-> <<>>]

QueryDisplay(data) ==
    IF ~truthy(data) \/ ~isObjectType(data) THEN NotRendered
    ELSE IF ~hasQuery(data) THEN NotRendered
    ELSE [rendered |-> TRUE,
          queryType |-> queryTypeOf(data),
          formattedQuery |-> formatQuery(prop(data, T_query).s),
          otherProps |-> without(IF data.t = "obj" THEN data.kv ELSE <<>>, T_query)]

\* PythonCodeDisplay: the code shown and the properties listed under "Parameters:"
PythonCodeDisplay(data) ==
    IF ~truthy(data) \/ ~isObjectType(data) THEN
        [rendered |-> FALSE, formattedCode |-> <<>>, otherProps |-> <<>>]
    ELSE IF ~truthy(prop(data, T_code)) \/ ~isString(prop(data, T_code)) THEN
        [rendered |-> FALSE, formattedCode |-> <<>>, otherProps |-> <<>>]
    ELSE [rendered |-> TRUE,
          formattedCode |-> formatCode(prop(data, T_code).s),
          otherProps |-> without(IF data.t = "obj" THEN data.kv ELSE <<>>, T_code)]

(***************************************************************************)
(* ToolCallInfo: the four classifications, then the view chosen for the    *)
(* request and for the response.                                           *)
(***************************************************************************)
\* {graphqlQueryData ? <QueryDisplay/> : <OptimizedCodeBlock text={formatText(input)}/>}
requestCategory(graphqlQueryData) ==
    IF truthy(graphqlQueryData) THEN "GraphQLQuery" ELSE "PlainText"

\* the ternary chain with the tabular test first
responseCategory_tabularFirst(graphqlSchemaData, graphqlSDLData, tabularData) ==
    IF truthy(tabularData) THEN "TabularData"
    ELSE IF truthy(graphqlSchemaData) THEN "GraphQLSchema"
    ELSE IF truthy(graphqlSDLData) THEN "GraphQLSDL"
    ELSE "PlainText"

\* {graphqlSchemaData ? ... : graphqlSDLData ? ... : tabularData ? ... : ...}
responseCategory(graphqlSchemaData, graphqlSDLData, tabularData) ==
    IF truthy(graphqlSchemaData) THEN "GraphQLSchema"
    ELSE IF truthy(graphqlSDLData) THEN "GraphQLSDL"
    ELSE IF truthy(tabularData) THEN "TabularData"
    ELSE "PlainText"

\* {output && ( ... )}
outputShown(text) == ~noText(text)

ToolCallInfo(in, out) ==
    The({ LET graphqlQueryData == c.query
              tabularData == c.tabular
              graphqlSchemaData == c.schema
              graphqlSDLData == c.sdl
              reqCat == requestCategory(graphqlQueryData)
              respCat == responseCategory(graphqlSchemaData, graphqlSDLData, tabularData)
          IN  [graphqlQueryData |-> graphqlQueryData,
               tabularData |-> tabularData,
               graphqlSchemaData |-> graphqlSchemaData,
               graphqlSDLData |-> graphqlSDLData,
               requestCategory |-> reqCat,
               query |-> IF reqCat = "GraphQLQuery" THEN QueryDisplay(graphqlQueryData)
                         ELSE NotRendered,
               requestText |-> IF reqCat = "PlainText" THEN formatText(in) ELSE <<>>,
               responseShown |-> outputShown(out),
               responseCategory |-> IF outputShown(out) THEN respCat ELSE "none",
               responseText |-> IF outputShown(out) /\ respCat = "PlainText"
                                THEN formatText(out.s) ELSE <<>>] :
          c \in {[query |-> getGraphQLQueryData(in).val,
                  tabular |-> getTabularData(out).val,
                  schema |-> getGraphQLSchemaData(out).val,
                  sdl |-> getGraphQLSDLData(out).val]} })


(***************************************************************************)
(* DataTable: the aggregate table and one table per array field.           *)
(***************************************************************************)
RECURSIVE groupDigits(_)
\* the digits in groups of three
groupDigits(d) ==
    IF Len(d) <= 3 THEN d
    ELSE groupDigits(SubSeq(d, 1, Len(d) - 3)) \o <<",">> \o SubSeq(d, Len(d) - 2, Len(d))

\* value.toLocaleString() of an integer, in the en-US locale
toLocaleString(n) ==
    IF n < 0 THEN <<"-">> \o groupDigits(natToText(0 - n)) ELSE groupDigits(natToText(n))

\* the longest string a cell shows whole
CELL_MAX == 100

\* a string is cut from CELL_MAX characters on
renderValue_cutAtMax(value) ==
    CASE nullish(value) -> [kind |-> "null", text |-> <<"n", "u", "l", "l">>]
      [] value.t = "bool" -> [kind |-> "boolean", text |-> toStringJS(value)]
      [] value.t = "num" -> [kind |-> "number", text |-> toLocaleString(value.n)]
      [] value.t = "str" ->
            IF Len(value.s) >= CELL_MAX
            THEN [kind |-> "string", title |-> value.s,
                  text |-> substring(value.s, 0, CELL_MAX) \o <<".", ".", ".">>]
            ELSE [kind |-> "string", text |-> value.s]
      [] OTHER -> [kind |-> "object", text |-> <<"O", "b", "j", "e", "c", "t">>]

\* the cell of a value: its kind, the text shown and, for a string that is
\* cut, the title attribute
renderValue(value) ==
    CASE nullish(value) -> [kind |-> "null", text |-> <<"n", "u", "l", "l">>]
      [] value.t = "bool" -> [kind |-> "boolean", text |-> toStringJS(value)]
      [] value.t = "num" -> [kind |-> "number", text |-> toLocaleString(value.n)]
      [] value.t = "str" ->
            IF Len(value.s) > CELL_MAX
            THEN [kind |-> "string", title |-> value.s,
                  text |-> substring(value.s, 0, CELL_MAX) \o <<".", ".", ".">>]
            ELSE [kind |-> "string", text |-> value.s]
      [] value.t = "function" ->
            [kind |-> "other",
             text |-> <<"f", "u", "n", "c", "t", "i", "o", "n", " ">> \o value.name
                      \o <<"(", ")", " ", "{", " ", "[", "n", "a", "t", "i", "v", "e", " ", "c", "o", "d", "e", "]", " ", "}">>]
      [] OTHER -> [kind |-> "object", text |-> <<"O", "b", "j", "e", "c", "t">>]

\* key.replace(/_/g, ' ').replace(/\b\w/g, (l) => l.toUpperCase())
humanize(key) ==
    The({ [i \in 1..Len(s) |->
              IF s[i] \in WordChar /\ (i = 1 \/ s[i - 1] \notin WordChar)
              THEN toUpperChar(s[i]) ELSE s[i]] :
          s \in {[i \in 1..Len(key) |-> IF key[i] = "_" THEN " " ELSE key[i]]} })

\* value.count
aggregateCount_ofValue(value) == member(value, T_count)

\* value.aggregate?.count
aggregateCount(value) ==
    The({ IF nullish(agg) THEN Undefined ELSE member(agg, T_count) :
          agg \in {member(value, T_aggregate)} })

renderAggregateData(obj) ==
    The({ IF Len(aggregateEntries) > 0
          THEN [rendered |-> TRUE,
                rows |-> [i \in 1..Len(aggregateEntries) |->
                            [field |-> humanize(aggregateEntries[i].k),
                             count |-> renderValue(aggregateCount(aggregateEntries[i].v))]]]
          ELSE [rendered |-> FALSE, rows |-> <<>>] :
          aggregateEntries \in {SelectSeq(entries(obj), LAMBDA e : isAggregate(e.v))} })

\* Array.from(new Set(seq)): the first occurrence of each element, in order
dedupe(seq) ==
    The({ [n \in 1..Cardinality(firsts) |->
              seq[CHOOSE i \in firsts : Cardinality({j \in firsts : j < i}) = n - 1]] :
          firsts \in {{i \in 1..Len(seq) : \A j \in 1..(i - 1) : seq[j] # seq[i]}} })

\* value.flatMap((item) => (typeof item === 'object' && item ? Object.keys(item) : []))
flatMapKeys(value) ==
    Concat([i \in 1..Len(value) |->
              IF isObjectType(value[i]) /\ truthy(value[i]) THEN keys(value[i]) ELSE <<>>])

\* how many rows a table shows at most
ROW_CAP == 50

NoTable == [shown |-> FALSE, thrown |-> FALSE]

\* item[colKey] of a null or undefined item throws a TypeError
TableThrew == [shown |-> FALSE, thrown |-> TRUE]

\* value.slice(0, ROW_CAP)
sliceRows(value) == SubSeq(value, 1, IF Len(value) < ROW_CAP THEN Len(value) ELSE ROW_CAP)

\* the note shown from ROW_CAP records on
showsNote_atCap(value) == Len(value) >= ROW_CAP

\* value.length > 50 && <p>Showing first 50 of {value.length} records</p>
showsNote(value) == Len(value) > ROW_CAP

\* the callback of arrayEntries.map: the table of one array field
tableOf(key, value) ==
    The({ IF Len(allKeys) = 0 THEN NoTable
          ELSE The({ IF \E i \in 1..Len(shown) : nullish(shown[i]) THEN TableThrew
                     ELSE [shown |-> TRUE,
                           thrown |-> FALSE,
                           key |-> key,
                           heading |-> humanize(key),
                           records |-> Len(value),
                           columns |-> allKeys,
                           headers |-> [c \in 1..Len(allKeys) |-> humanize(allKeys[c])],
                           rows |-> [i \in 1..Len(shown) |->
                                        [c \in 1..Len(allKeys) |->
                                            renderValue(member(shown[i], allKeys[c]))]],
                           note |-> showsNote(value),
                           noteTotal |-> IF showsNote(value) THEN Len(value) ELSE 0] :
                     shown \in {sliceRows(value)} }) :
          allKeys \in {dedupe(flatMapKeys(value))} })

renderArrayData(obj) ==
    The({ IF Len(arrayEntries) = 0
          THEN [rendered |-> FALSE, thrown |-> FALSE, tables |-> <<>>]
          ELSE The({ [rendered |-> TRUE,
                      thrown |-> \E i \in 1..Len(tables) : tables[i].thrown,
                      tables |-> tables] :
                     tables \in {[i \in 1..Len(arrayEntries) |->
                                    tableOf(arrayEntries[i].k, arrayEntries[i].v.items)]} }) :
          arrayEntries \in {SelectSeq(entries(obj),
                                      LAMBDA e : isArray(e.v) /\ Len(e.v.items) > 0)} })

DataTable(d) ==
    IF ~truthy(d) \/ ~isObjectType(d)
    THEN [rendered |-> FALSE, thrown |-> FALSE,
          aggregate |-> [rendered |-> FALSE, rows |-> <<>>],
          arrays |-> [rendered |-> FALSE, thrown |-> FALSE, tables |-> <<>>]]
    ELSE The({ [rendered |-> ~arrays.thrown,
                thrown |-> arrays.thrown,
                aggregate |-> renderAggregateData(d),
                arrays |-> arrays] :
               arrays \in {renderArrayData(d)} })

(***************************************************************************)
(* GraphQLSDLDisplay: the SDL text of the data, cleaned, and what          *)
(* parseSchemaInfo reads from it with regular expressions.                 *)
(***************************************************************************)
\* the class \s of JavaScript regular expressions, among the model's characters
RegexSpace == WhiteSpace \cup {FORMFEED}

\* where a greedy run of characters of class C that starts at i ends (the
\* position after its last character)
spanOf(s, i, C) ==
    CHOOSE j \in i..(Len(s) + 1) :
        /\ j = Len(s) + 1 \/ s[j] \notin C
        /\ \A k \in i..(j - 1) : s[k] \in C

NoMatch == [ok |-> FALSE, text |-> <<>>, group |-> <<>>, end |-> 0]

\* keyword \s+ sigil (\w+) tried at position i: the match and its group
nameMatchAt(s, keyword, sigil, i) ==
    IF ~MatchAt(s, keyword, i) THEN NoMatch
    ELSE The({ IF b = i + Len(keyword) \/ ~MatchAt(s, sigil, b) THEN NoMatch
               ELSE The({ IF c = b + Len(sigil) THEN NoMatch
                          ELSE [ok |-> TRUE, text |-> SubSeq(s, i, c - 1),
                                group |-> SubSeq(s, b + Len(sigil), c - 1), end |-> c] :
                          c \in {spanOf(s, b + Len(sigil), WordChar)} }) :
               b \in {spanOf(s, i + Len(keyword), RegexSpace)} })

RECURSIVE matchAll(_, _, _, _, _)
\* schema.match(/keyword\s+sigil(\w+)/g): the matches from position `from` on,
\* leftmost first, each search starting where the last match ended
matchAll(s, keyword, sigil, from, acc) ==
    The({ IF starts = {} THEN acc
          ELSE The({ matchAll(s, keyword, sigil, m.end, Append(acc, m)) :
                     m \in {nameMatchAt(s, keyword, sigil,
                                        CHOOSE i \in starts : \A j \in starts : i <= j)} }) :
          starts \in {{i \in from..Len(s) : nameMatchAt(s, keyword, sigil, i).ok}} })

\* label \s* (\w+) tried at position i
rootMatchAt(s, label, i) ==
    IF ~MatchAt(s, label, i) THEN NoMatch
    ELSE The({ The({ IF c = b THEN NoMatch
                     ELSE [ok |-> TRUE, text |-> SubSeq(s, i, c - 1),
                           group |-> SubSeq(s, b, c - 1), end |-> c] :
                     c \in {spanOf(s, b, WordChar)} }) :
               b \in {spanOf(s, i + Len(label), RegexSpace)} })

\* schemaContent.match(/label\s*(\w+)/): the first match
rootMatch(s, label) ==
    The({ IF starts = {} THEN NoMatch
          ELSE rootMatchAt(s, label, CHOOSE i \in starts : \A j \in starts : i <= j) :
          starts \in {{i \in 1..Len(s) : rootMatchAt(s, label, i).ok}} })

\* schema \s* \{ ([^}]+) \} tried at position i
schemaMatchAt(s, i) ==
    IF ~MatchAt(s, T_schema, i) THEN NoMatch
    ELSE The({ IF b > Len(s) \/ s[b] # "{" THEN NoMatch
               ELSE The({ IF c = b + 1 \/ c > Len(s) THEN NoMatch
                          ELSE [ok |-> TRUE, text |-> SubSeq(s, i, c),
                                group |-> SubSeq(s, b + 1, c - 1), end |-> c + 1] :
                          c \in {CHOOSE j \in (b + 1)..(Len(s) + 1) :
                                    /\ j = Len(s) + 1 \/ s[j] = "}"
                                    /\ \A k \in (b + 1)..(j - 1) : s[k] # "}"} }) :
               b \in {spanOf(s, i + Len(T_schema), RegexSpace)} })

\* schema.match(/schema\s*\{([^}]+)\}/): the first match
schemaMatch(s) ==
    The({ IF starts = {} THEN NoMatch
          ELSE schemaMatchAt(s, CHOOSE i \in starts : \A j \in starts : i <= j) :
          starts \in {{i \in 1..Len(s) : schemaMatchAt(s, i).ok}} })

\* matches.map((match) => match.replace(prefix, ''))
stripPrefix(matches, prefix) ==
    [i \in 1..Len(matches) |-> replaceFirst(matches[i].text, prefix, <<>>)]

\* if (m) info.field = m[1], the field being '' before
rootName(schemaBlock, label) ==
    IF ~schemaBlock.ok THEN <<>>
    ELSE The({ IF m.ok THEN m.group ELSE <<>> : m \in {rootMatch(schemaBlock.group, label)} })

parseSchemaInfo(schema) ==
    The({ [queryType |-> rootName(schemaBlock, <<"q", "u", "e", "r", "y", ":">>),
           mutationType |-> rootName(schemaBlock, <<"m", "u", "t", "a", "t", "i", "o", "n", ":">>),
           subscriptionType |-> rootName(schemaBlock, <<"s", "u", "b", "s", "c", "r", "i", "p", "t", "i", "o", "n", ":">>),
           types |-> stripPrefix(matchAll(schema, T_type, <<>>, 1, <<>>), <<"t", "y", "p", "e", " ">>),
           enums |-> stripPrefix(matchAll(schema, T_enum, <<>>, 1, <<>>), <<"e", "n", "u", "m", " ">>),
           directives |-> stripPrefix(matchAll(schema, T_directive, <<"@">>, 1, <<>>),
                                      <<"d", "i", "r", "e", "c", "t", "i", "v", "e", " ", "@">>)] :
          schemaBlock \in {schemaMatch(schema)} })

\* the cleanup with the backslash pairs replaced first
cleanSchema_backslashesFirst(schemaText) ==
    The({ replaceAll(c, <<BSL, "t">>, <<" ", " ">>) :
          c \in { replaceAll(b, <<BSL, QUOTE>>, <<QUOTE>>) :
          b \in { replaceAll(a, <<BSL, "n">>, <<NL>>) :
          a \in { replaceAll(schemaText, <<BSL, BSL>>, <<BSL>>) } } } })

\* .replace(/\\n/g, '\n').replace(/\\"/g, '"').replace(/\\t/g, '  ').replace(/\\\\/g, '\\')
cleanSchema(schemaText) ==
    The({ replaceAll(c, <<BSL, BSL>>, <<BSL>>) :
          c \in { replaceAll(b, <<BSL, "t">>, <<" ", " ">>) :
          b \in { replaceAll(a, <<BSL, QUOTE>>, <<QUOTE>>) :
          a \in { replaceAll(schemaText, <<BSL, "n">>, <<NL>>) } } } })

\* the text the display takes from data; thrown: data[0] is null or undefined
schemaTextOf(d) ==
    IF isArray(d) /\ Len(d.items) > 0
    THEN IF nullish(d.items[1]) THEN [thrown |-> TRUE, val |-> Undefined]
         ELSE IF member(d.items[1], T_type) = JStr(T_text) /\ truthy(member(d.items[1], T_text))
              THEN [thrown |-> FALSE, val |-> member(d.items[1], T_text)]
              ELSE [thrown |-> FALSE, val |-> JStr(<<>>)]
    ELSE IF truthy(member(d, T_text)) /\ isString(member(d, T_text))
         THEN [thrown |-> FALSE, val |-> member(d, T_text)]
         ELSE [thrown |-> FALSE, val |-> JStr(<<>>)]

\* how many type names the display lists
TYPES_SHOWN == 20

SDLNotRendered == [rendered |-> FALSE, thrown |-> FALSE]

SDLThrew == [rendered |-> FALSE, thrown |-> TRUE]

GraphQLSDLDisplay(d) ==
    IF ~truthy(d) \/ ~isObjectType(d) THEN SDLNotRendered
    ELSE The({ IF t.thrown THEN SDLThrew
               ELSE IF ~truthy(t.val) THEN SDLNotRendered
               \* schemaText.includes and schemaText.replace exist on strings only;
               \* an array has includes but no replace
               ELSE IF ~hasIncludes(t.val) THEN SDLThrew
               ELSE IF ~includesJS(t.val, T_schema) \/ ~includesJS(t.val, T_type)
                    THEN SDLNotRendered
               ELSE IF ~isString(t.val) THEN SDLThrew
               ELSE The({ The({ [rendered |-> TRUE,
                                 thrown |-> FALSE,
                                 cleanedSchema |-> cleanedSchema,
                                 schemaInfo |-> schemaInfo,
                                 typesShown |-> SubSeq(schemaInfo.types, 1,
                                                       IF Len(schemaInfo.types) < TYPES_SHOWN
                                                       THEN Len(schemaInfo.types) ELSE TYPES_SHOWN),
                                 moreTypes |-> IF Len(schemaInfo.types) > TYPES_SHOWN
                                               THEN Len(schemaInfo.types) - TYPES_SHOWN ELSE 0] :
                                schemaInfo \in {parseSchemaInfo(cleanedSchema)} }) :
                          cleanedSchema \in {cleanSchema(t.val.s)} }) :
               t \in {schemaTextOf(d)} })

(***************************************************************************)
(* GraphQLSchemaDisplay: the root types, the types that are not            *)
(* introspection types, and the fields and enum values of each.            *)
(***************************************************************************)
T_kind == <<"k", "i", "n", "d">>

T_fields == <<"f", "i", "e", "l", "d", "s">>

T_enumValues == <<"e", "n", "u", "m", "V", "a", "l", "u", "e", "s">>

T_ofType == <<"o", "f", "T", "y", "p", "e">>

\* how many types, and how many fields of a type, the display lists
SCHEMA_TYPES_SHOWN == 20

FIELDS_SHOWN == 10

\* data.__schema || data.data?.__schema || data
schemaOf(d) ==
    IF truthy(prop(d, T___schema)) THEN prop(d, T___schema)
    ELSE The({ IF truthy(inner) THEN inner ELSE d :
               inner \in {IF nullish(prop(d, T_data)) THEN Undefined
                          ELSE member(prop(d, T_data), T___schema)} })

\* type.name.startsWith('__') can be evaluated: reading `name` of null or
\* undefined, and calling startsWith on anything but a string, is a TypeError
hasName(type) == ~nullish(type) /\ isString(member(type, T_name))

\* (type) => !type.name.startsWith('__'), on the types that have a name
notIntrospection(type) == ~startsWith(member(type, T_name).s, <<"_", "_">>)

\* v.length > 0, for v an array or a string; other values of the catalog have
\* no length
nonEmptyLength(v) ==
    CASE v.t = "arr" -> Len(v.items) > 0
      [] v.t = "str" -> Len(v.s) > 0
      [] OTHER -> FALSE

\* field.type?.name || field.type?.ofType?.name || 'Unknown'
fieldTypeName(field) ==
    The({ IF nullish(ft) THEN JStr(<<"U", "n", "k", "n", "o", "w", "n">>)
          ELSE IF truthy(member(ft, T_name)) THEN member(ft, T_name)
          ELSE IF ~nullish(member(ft, T_ofType)) /\ truthy(member(member(ft, T_ofType), T_name))
               THEN member(member(ft, T_ofType), T_name)
          ELSE JStr(<<"U", "n", "k", "n", "o", "w", "n">>) :
          ft \in {member(field, T_type)} })

\* {type.fields && type.fields.length > 0 && ( ... slice(0, 10).map( ... ) ... )}:
\* a string has slice but its result has no map; a null field has no name to read
renderFields(fields) ==
    IF ~truthy(fields) \/ ~nonEmptyLength(fields)
    THEN [thrown |-> FALSE, shown |-> <<>>, more |-> 0]
    ELSE IF ~isArray(fields) THEN [thrown |-> TRUE, shown |-> <<>>, more |-> 0]
    ELSE The({ IF \E i \in 1..Len(first10) : nullish(first10[i])
               THEN [thrown |-> TRUE, shown |-> <<>>, more |-> 0]
               ELSE [thrown |-> FALSE,
                     shown |-> [i \in 1..Len(first10) |->
                                  [name |-> member(first10[i], T_name),
                                   type |-> fieldTypeName(first10[i])]],
                     more |-> IF Len(fields.items) > FIELDS_SHOWN
                              THEN Len(fields.items) - FIELDS_SHOWN ELSE 0] :
               first10 \in {SubSeq(fields.items, 1,
                                   IF Len(fields.items) < FIELDS_SHOWN
                                   THEN Len(fields.items) ELSE FIELDS_SHOWN)} })

\* {type.enumValues && type.enumValues.length > 0 && ( ... map((enumValue) => enumValue.name) )}
renderEnumValues(enumValues) ==
    IF ~truthy(enumValues) \/ ~nonEmptyLength(enumValues)
    THEN [thrown |-> FALSE, names |-> <<>>]
    ELSE IF ~isArray(enumValues) \/ \E i \in 1..Len(enumValues.items) : nullish(enumValues.items[i])
         THEN [thrown |-> TRUE, names |-> <<>>]
    ELSE [thrown |-> FALSE,
          names |-> [i \in 1..Len(enumValues.items) |-> member(enumValues.items[i], T_name)]]

\* renderType(type), for a type that passed the filter
renderType(type) ==
    The({ The({ [thrown |-> f.thrown \/ e.thrown,
                 name |-> member(type, T_name),
                 kind |-> member(type, T_kind),
                 fields |-> f.shown,
                 moreFields |-> f.more,
                 enumValues |-> e.names] :
                e \in {renderEnumValues(member(type, T_enumValues))} }) :
          f \in {renderFields(member(type, T_fields))} })

\* {schema.queryType && <div>Query Type: {schema.queryType.name}</div>}
rootTypeName(schema, key) ==
    IF truthy(member(schema, key))
    THEN [shown |-> TRUE, name |-> member(member(schema, key), T_name)]
    ELSE [shown |-> FALSE, name |-> Undefined]

\* schema.types.filter(...).slice(0, 20).map(...), with the slice before the filter
shownTypes_sliceFirst(types) ==
    SelectSeq(SubSeq(types, 1, IF Len(types) < SCHEMA_TYPES_SHOWN THEN Len(types)
                                 ELSE SCHEMA_TYPES_SHOWN),
              notIntrospection)

\* schema.types.filter((type) => !type.name.startsWith('__')).slice(0, 20)
shownTypes(types) ==
    The({ SubSeq(filtered, 1, IF Len(filtered) < SCHEMA_TYPES_SHOWN THEN Len(filtered)
                                ELSE SCHEMA_TYPES_SHOWN) :
          filtered \in {SelectSeq(types, notIntrospection)} })

\* {schema.types && Array.isArray(schema.types) && ( ... )}
renderTypes(schema) ==
    The({ IF ~(truthy(types) /\ isArray(types))
          THEN [listed |-> FALSE, thrown |-> FALSE, total |-> 0, types |-> <<>>,
                note |-> FALSE, noteTotal |-> 0]
          ELSE IF \E i \in 1..Len(types.items) : ~hasName(types.items[i])
          THEN [listed |-> FALSE, thrown |-> TRUE, total |-> 0, types |-> <<>>,
                note |-> FALSE, noteTotal |-> 0]
          ELSE The({ The({ [listed |-> TRUE,
                            thrown |-> \E i \in 1..Len(views) : views[i].thrown,
                            total |-> Len(types.items),
                            types |-> views,
                            note |-> filteredCount > SCHEMA_TYPES_SHOWN,
                            noteTotal |-> IF filteredCount > SCHEMA_TYPES_SHOWN
                                          THEN filteredCount ELSE 0] :
                           filteredCount \in {Len(SelectSeq(types.items, notIntrospection))} }) :
                     views \in {[i \in 1..Len(shownTypes(types.items)) |->
                                   renderType(shownTypes(types.items)[i])]} }) :
          types \in {member(schema, T_types)} })

SchemaNotRendered == [rendered |-> FALSE, thrown |-> FALSE]

GraphQLSchemaDisplay(d) ==
    IF ~truthy(d) \/ ~isObjectType(d) THEN SchemaNotRendered
    ELSE IF ~hasSchemaStructure(d) THEN SchemaNotRendered
    ELSE The({ The({ [rendered |-> ~t.thrown,
                      thrown |-> t.thrown,
                      schema |-> schema,
                      queryType |-> rootTypeName(schema, T_queryType),
                      mutationType |-> rootTypeName(schema, T_mutationType),
                      subscriptionType |-> rootTypeName(schema, T_subscriptionType),
                      types |-> t] :
                     t \in {renderTypes(schema)} }) :
               schema \in {schemaOf(d)} })

(***************************************************************************)
(* PythonResultDisplay                                                      *)
(***************************************************************************)
T_traceback == <<"t", "r", "a", "c", "e", "b", "a", "c", "k">>

PythonResultDisplay(d) ==
    IF ~truthy(d) \/ ~isObjectType(d) THEN [rendered |-> FALSE]
    ELSE IF ~(/\ member(d, T_success) # Undefined
              /\ \/ member(d, T_output) # Undefined
                 \/ member(d, T_error) # Undefined
                 \/ member(d, T_plot) # Undefined)
         THEN [rendered |-> FALSE]
    ELSE [rendered |-> TRUE,
          success |-> truthy(member(d, T_success)),
          error |-> IF ~truthy(member(d, T_success)) /\ truthy(member(d, T_error))
                    THEN member(d, T_error) ELSE Undefined,
          traceback |-> IF /\ ~truthy(member(d, T_success)) /\ truthy(member(d, T_error))
                           /\ truthy(member(d, T_traceback))
                        THEN member(d, T_traceback) ELSE Undefined,
          output |-> IF truthy(member(d, T_output)) THEN member(d, T_output) ELSE Undefined,
          plot |-> IF truthy(member(d, T_plot)) THEN member(d, T_plot) ELSE Undefined]

(***************************************************************************)
(* Payloads.  The request and the response are arbitrary strings handed in *)
(* by the tool-call subsystem; the model draws them from JSON values of    *)
(* the shapes the classifiers look for (serialized by JSON.stringify),     *)
(* from truncations of those texts, and from texts that are not JSON.      *)
(***************************************************************************)
\* arrays hold a first element and up to MaxPad further elements
MaxPad == 1

\* a truncated text lacks its last 1..MaxTruncate characters
MaxTruncate == 2

\* a query text is made of up to MaxFrags fragments
MaxFrags == 3

O1(k, v) == JObj(<<[k |-> k, v |-> v]>>)

O2(k1, v1, k2, v2) == JObj(<<[k |-> k1, v |-> v1], [k |-> k2, v |-> v2]>>)

O3(k1, v1, k2, v2, k3, v3) ==
    JObj(<<[k |-> k1, v |-> v1], [k |-> k2, v |-> v2], [k |-> k3, v |-> v3]>>)

TextElem(v) == O2(T_type, JStr(T_text), T_text, v)

T_a == <<"a">>

T_users == <<"u", "s", "e", "r", "s">>

T_meta == <<"m", "e", "t", "a">>

T_done == <<"d", "o", "n", "e">>

T_ok == <<"o", "k">>

SDLSample == <<"s", "c", "h", "e", "m", "a", " ", "{", " ", "q", "u", "e", "r", "y", ":", " ", "Q", " ", "}", " ", "t", "y", "p", "e", " ", "Q">>

CodeSample == <<"x", " ", "=", " ", "1">>

Rows2 == JArr(<<O1(T_a, JNum(1)), O1(T_a, JNum(2))>>)

Leaves ==
    {JNull, JTrue, JFalse, JNum(0), JNum(5), JStr(<<>>), JStr(T_ok), JStr(SDLSample),
     JStr(CodeSample)}

Structs ==
    {JArr(<<>>), JArr(<<JNull>>), Rows2, JArr(<<O1(T_a, JNum(1)), JNull>>), JObj(<<>>),
     O1(T_aggregate, O1(T_count, JNum(3))), O1(T___schema, JObj(<<>>)),
     O1(T_users, Rows2), JArr(<<JStr(T_schema), JStr(T_type)>>)}

FieldNames ==
    {T_query, T_code, T_success, T_output, T_data, T_types, T_text, T_type,
     T___schema, T_queryType, T_users}

Obj1 == {O1(k, v) : k \in FieldNames, v \in Leaves \cup Structs}

\* the Python result shape, alone and together with the other shapes
PyObjs ==
    {O2(T_success, b, k, v) : b \in {JTrue, JFalse, JNull},
                              k \in {T_output, T_error, T_plot, T_types, T_users},
                              v \in {JStr(T_done), JNull, Rows2}}
    \cup {O3(T_success, JTrue, T_output, JStr(T_ok), T_types, Rows2),
          O3(T_success, JTrue, T_meta, O1(T_a, JStr(T_ok)), T_output, JStr(T_done)),
          O3(T_success, JTrue, T_output, JStr(T_done), T_meta, O1(T_a, JStr(T_ok))),
          O3(T_success, JTrue, T_output, JStr(T_done), T_a, JNum(5)),
          O2(T_output, JStr(<<QUOTE, "}">>), T_success, JTrue)}

\* request objects
ReqObjs ==
    {O2(T_query, q, T_code, c) : q \in {JStr(<<"{", "a", "}">>), JStr(<<>>), JNum(5)},
                                 c \in {JStr(CodeSample), JStr(T_ok), JStr(<<" ", "#">>)}}
    \cup {O2(T_code, c, T_language, JStr(<<"j", "s">>)) :
            c \in {JStr(CodeSample), JStr(T_ok), JStr(<<BSL, "n", "p", ".">>),
                   JStr(<<"n", "p", ".", "a", BSL, "n", "x">>)}}
    \cup {O2(T_query, q, T_a, JNum(5)) : q \in {JStr(T_ok), JStr(<<>>), JStr(<<BSL, "n">>)}}
    \cup {O2(T_query, JStr(T_ok), T_success, JTrue)}

\* responses that more than one classifier matches
MixedObjs ==
    {O2(T_text, JStr(SDLSample), T_users, Rows2),
     O2(T_text, JStr(SDLSample), T_types, JArr(<<>>)),
     O2(T_types, Rows2, T_users, Rows2),
     O2(T_data, Rows2, T_queryType, O1(T_name, JStr(T_ok))),
     O1(T_mutationType, JNull),
     O1(T_subscriptionType, O1(T_name, JStr(T_ok))),
     O2(T___schema, JNull, T_data, O1(T___schema, O1(T_types, JArr(<<>>)))),
     O2(T___schema, O1(T_queryType, O1(T_name, JStr(T_ok))), T_data, O1(T___schema, JObj(<<>>))),
     O2(T___schema, JNull, T_types, JArr(<<>>))}

InnerValues ==
    {O1(T_a, JNum(1)), O1(T_users, Rows2), O1(T_data, Rows2), O1(T_types, JArr(<<>>)),
     O1(T_aggregate, JNull), O1(T_users, O1(T_aggregate, JNull)), Rows2, JNull,
     O2(T_success, JTrue, T_output, JStr(T_done)), O1(T_success, JTrue),
     O2(T_output, JStr(<<"a", NL, "b">>), T_success, JFalse)}

\* first elements of arrays
FirstElems ==
    Leaves \cup {O1(T_a, JNum(1)), O1(T_success, JTrue), O1(T_type, JStr(T_text)), Rows2,
                 O1(T_aggregate, O1(T_count, JNum(3)))}
    \cup {TextElem(v) : v \in Leaves \cup {JArr(<<JStr(T_schema), JStr(T_type)>>), JObj(<<>>),
                                           JArr(<<JStr(<<"5">>)>>)}}
    \cup {TextElem(JStr(JSONstringify(v))) : v \in InnerValues}

PadElems == {JNull, TextElem(JStr(JSONstringify(O2(T_success, JTrue, T_output, JStr(T_done)))))}

RECURSIVE SeqsUpTo(_, _)
\* the sequences of at most n elements of S
SeqsUpTo(S, n) ==
    IF n = 0 THEN {<<>>}
    ELSE LET shorter == SeqsUpTo(S, n - 1)
         IN  shorter \cup {Append(q, x) : q \in shorter, x \in S}

Arrays == {JArr(<<e>> \o pad) : e \in FirstElems, pad \in SeqsUpTo(PadElems, MaxPad)}

Truncatable == PyObjs \cup {JArr(<<e>>) : e \in FirstElems}

Truncated ==
    {SubSeq(JSONstringify(v), 1, Len(JSONstringify(v)) - d) : v \in Truncatable, d \in 1..MaxTruncate}

RawTexts ==
    { <<>>,
      <<" ">>,
      <<"n", "o", "t", " ", "j", "s", "o", "n", " ", "a", "t", " ", "a", "l", "l">>,
      <<"a", BSL, "n", "b">>,
      <<"s", "c", "h", "e", "m", "a", " ", "{", " ", "q", "u", "e", "r", "y", ":", " ", "Q", " ", "}", " ", "t", "y", "p", "e", " ", "Q">>,
      <<"{", BSL, QUOTE, "s", "u", "c", "c", "e", "s", "s", BSL, QUOTE, ":", "t", "r", "u", "e", ",", BSL, QUOTE, "o", "u", "t", "p", "u", "t", BSL, QUOTE, ":", BSL, QUOTE, "d", "o", "n", "e", BSL, QUOTE, "}">>,
      <<" ", "{", QUOTE, "s", "u", "c", "c", "e", "s", "s", QUOTE, ":", "t", "r", "u", "e", ",", QUOTE, "o", "u", "t", "p", "u", "t", QUOTE, ":", QUOTE, "d", "o", "n", "e", QUOTE, "}", " ">>,
      <<"[", "{", QUOTE, "t", "y", "p", "e", QUOTE, ":", QUOTE, "t", "e", "x", "t", QUOTE, ",", QUOTE, "t", "e", "x", "t", QUOTE, ":", QUOTE, "{", BSL, QUOTE, "s", "u", "c", "c", "e", "s", "s", BSL, QUOTE, ":", "t", "r", "u", "e", ",", BSL, QUOTE, "o", "u", "t", "p", "u", "t", BSL, QUOTE, ":", BSL, QUOTE, "a", BSL, BSL, BSL, QUOTE, "b", BSL, QUOTE, "}", QUOTE, "}">>,
      <<"[", "{", QUOTE, "t", "y", "p", "e", QUOTE, ":", QUOTE, "t", "e", "x", "t", QUOTE, ",", QUOTE, "t", "e", "x", "t", QUOTE, ":", QUOTE, "{", BSL, QUOTE, "s", "u", "c", "c", "e", "s", "s", BSL, QUOTE, ":", "t", "r", "u", "e">>,
      <<"{", QUOTE, "s", "u", "c", "c", "e", "s", "s", QUOTE, ":", "t", "r", "u", "e", ",", QUOTE, "o", "u", "t", "p", "u", "t", QUOTE, ":", QUOTE, "a", NL, "b", QUOTE, "}">> }

Payloads ==
    {JSONstringify(v) : v \in Leaves \cup Structs \cup Obj1 \cup PyObjs \cup ReqObjs \cup MixedObjs \cup Arrays}
    \cup Truncated \cup RawTexts

\* fragments of query texts
QueryFrags ==
    { <<"q", "u", "e", "r", "y">>,
      <<"m", "u", "t", "a", "t", "i", "o", "n">>,
      <<"S", "E", "L", "E", "C", "T">>,
      <<"w", "i", "t", "h">>,
      <<" ">>,
      <<"{">>,
      <<"}">>,
      <<"x">> }

QueryTexts == {Concat(fs) : fs \in SeqsUpTo(QueryFrags, MaxFrags)}

QueryRequests == {JSONstringify(O1(T_query, JStr(q))) : q \in QueryTexts}


(***************************************************************************)
(* Spec: one render of ToolCallInfo with the props input and output.       *)
(***************************************************************************)
NoResult == [fn |-> "none"]

\* the requests a response is paired with
BaseRequests == {JSONstringify(O1(T_query, JStr(<<"{", "a", "}">>))), <<"n", "o", "t", " ", "j", "s", "o", "n", " ", "a", "t", " ", "a", "l", "l">>}

Init ==
    /\ pc = "mounted"
    /\ res = NoResult
    /\ dataProp = Undefined
    /\ \/ input \in Payloads \cup QueryRequests /\ output = Absent
       \/ input \in BaseRequests /\ output \in {Text(s) : s \in Payloads}

Render ==
    /\ pc = "mounted"
    /\ pc' = "rendered"
    /\ res' = ToolCallInfo(input, output)
    /\ UNCHANGED <<input, output, dataProp>>

Next == Render

Spec == Init /\ [][Next]_vars

(***************************************************************************)
(* SpecCall: one call of one exported classifier on a text.                *)
(***************************************************************************)
InitCall ==
    /\ pc = "ready"
    /\ res = NoResult
    /\ dataProp = Undefined
    /\ \/ \E s \in Payloads : input = s /\ output = Text(s)
       \/ input = <<>> /\ output = Absent

Returned(fn, r) ==
    /\ pc = "ready"
    /\ pc' = "returned"
    /\ res' = The({ [fn |-> fn, thrown |-> o.thrown, val |-> o.val] : o \in {r} })
    /\ UNCHANGED <<input, output, dataProp>>

CallGraphQLQueryData == Returned("getGraphQLQueryData", getGraphQLQueryData(input))

CallPythonCodeData == Returned("getPythonCodeData", getPythonCodeData(input))

\* the call of getPythonResultData, with the parses and repairs it attempted
CallPythonResultData ==
    /\ pc = "ready"
    /\ pc' = "returned"
    /\ res' = The({ [fn |-> "getPythonResultData", thrown |-> o.thrown, val |-> o.val,
                     attempts |-> pythonResultAttempts(output)] :
                    o \in {getPythonResultData(output)} })
    /\ UNCHANGED <<input, output, dataProp>>

CallGraphQLSchemaData == Returned("getGraphQLSchemaData", getGraphQLSchemaData(output))

CallGraphQLSDLData == Returned("getGraphQLSDLData", getGraphQLSDLData(output))

CallTabularData == Returned("getTabularData", getTabularData(output))

\* The classifier `fn` called a second time, on the text `again`.
Reclassified(fn, again, r) ==
    /\ pc' = "reclassified"
    /\ input' = again
    /\ res' = The({ [fn |-> fn, thrown |-> o.thrown, val |-> o.val, first |-> res.val] : o \in {r} })
    /\ UNCHANGED <<output, dataProp>>

\* A matched query request is serialized again with the query text QueryDisplay
\* shows in the place of `query`, and classified again.
ReclassifyQuery ==
    /\ pc = "returned"
    /\ res.fn = "getGraphQLQueryData"
    /\ truthy(res.val)
    /\ \E again \in {JSONstringify(JObj(setProp(res.val.kv, T_query,
                          JStr(QueryDisplay(res.val).formattedQuery))))} :
          Reclassified("getGraphQLQueryData", again, getGraphQLQueryData(again))

\* A matched code request that is no query is serialized again with the code
\* text PythonCodeDisplay shows in the place of `code`, and classified again.
ReclassifyCode ==
    /\ pc = "returned"
    /\ res.fn = "getPythonCodeData"
    /\ truthy(res.val)
    /\ ~truthy(getGraphQLQueryData(input).val)
    /\ \E again \in {JSONstringify(JObj(setProp(res.val.kv, T_code,
                          JStr(formatCode(prop(res.val, T_code).s)))))} :
          Reclassified("getPythonCodeData", again, getPythonCodeData(again))

\* What the caller does with a match: it renders the display component of
\* the classifier with the matched value as its prop `data`.
Shown(component, view) ==
    /\ pc = "returned"
    /\ truthy(res.val)
    /\ pc' = "shown"
    /\ dataProp' = res.val
    /\ res' = [fn |-> component, view |-> view]
    /\ UNCHANGED <<input, output>>

ShowDataTable == res.fn = "getTabularData" /\ Shown("DataTable", DataTable(res.val))

ShowSchemaDisplay ==
    res.fn = "getGraphQLSchemaData" /\ Shown("GraphQLSchemaDisplay", GraphQLSchemaDisplay(res.val))

ShowPythonResult ==
    res.fn = "getPythonResultData" /\ Shown("PythonResultDisplay", PythonResultDisplay(res.val))

NextCall ==
    \/ CallGraphQLQueryData
    \/ CallPythonCodeData
    \/ CallPythonResultData
    \/ CallGraphQLSchemaData
    \/ CallGraphQLSDLData
    \/ CallTabularData
    \/ ReclassifyQuery
    \/ ReclassifyCode
    \/ ShowDataTable
    \/ ShowSchemaDisplay
    \/ ShowPythonResult

SpecCall == InitCall /\ [][NextCall]_vars

(***************************************************************************)
(* SpecTable: one render of DataTable with the prop data.                  *)
(***************************************************************************)
\* the longest array field of the catalog
MaxRows == 52

T_id == <<"i", "d">>

T_order_items == <<"o", "r", "d", "e", "r", "_", "i", "t", "e", "m", "s">>

\* n rows, told apart by their id
RowsOf(n, shape) ==
    [i \in 1..n |->
        CASE shape = "id" -> O1(T_id, JNum(i))
          [] shape = "idName" -> O2(T_id, JNum(i), T_name, JStr(natToText(i)))
          [] shape = "late" -> IF i <= ROW_CAP THEN O1(T_id, JNum(i)) ELSE O2(T_name, JStr(T_ok), T_id, JNum(i))
          [] OTHER -> IF i % 2 = 1 THEN O1(T_id, JNum(i)) ELSE O2(T_name, JStr(T_ok), T_id, JNum(i))]

RowShapes == {"id", "idName", "late", "mixed"}

\* values of a field of aggregate data: with an aggregate key or without
AggValues ==
    {O1(T_aggregate, O1(T_count, JNum(3))), O1(T_aggregate, O1(T_count, JNum(1234567))),
     O1(T_aggregate, O1(T_count, JNull)), O1(T_aggregate, O1(T_count, JStr(T_ok))),
     O1(T_aggregate, O1(T_count, JObj(<<>>))), O1(T_aggregate, JObj(<<>>)),
     O1(T_aggregate, JNull), O1(T_aggregate, JNum(5)), O1(T_aggregate, JStr(T_count)),
     O2(T_id, JNum(1), T_aggregate, O1(T_count, JNum(0))),
     O1(T_id, JNum(1)), O1(T_count, JNum(3)), JNull, JNum(5), JArr(<<>>), JStr(T_aggregate)}

AggData ==
    {O2(T_users, v, T_order_items, w) : v, w \in AggValues}
    \cup {O3(T_users, O1(T_aggregate, O1(T_count, JNum(1234567))), T_a, w,
              T_order_items, O1(T_aggregate, JNull)) : w \in AggValues}

\* the longest string in a cell
MaxCellLen == 102

\* a string of n characters, the last one told apart
CellString(n) == [i \in 1..n |-> IF i = n THEN "z" ELSE "x"]

CellValues ==
    {JStr(CellString(n)) : n \in 0..MaxCellLen}
    \cup {JNull, JTrue, JFalse, JNum(0), JNum(999), JNum(1000), JNum(1234567), JNum(0 - 1234567),
          JObj(<<>>), O1(T_a, JNum(1)), JArr(<<>>), JArr(<<JNum(1)>>), JStr(<<"n", "u", "l", "l">>)}

\* one row with one cell of each kind, next to a row without that key
CellData == {O1(T_users, JArr(<<O1(T_a, v), O1(T_id, JNum(1))>>)) : v \in CellValues}

TableData ==
    {O1(k, JArr(RowsOf(n, shape))) : k \in {T_users, T_order_items}, n \in 0..MaxRows,
                                     shape \in RowShapes}
    \cup {O2(T_users, JArr(RowsOf(n, "id")), T_order_items, JArr(RowsOf(m, "idName"))) :
            n \in {0, 1, ROW_CAP, MaxRows}, m \in {0, 2, MaxRows}}
    \cup {O1(T_users, JArr(<<JObj(<<>>), JObj(<<>>)>>)),
          O1(T_users, JArr(<<O1(T_id, JNum(1)), JNull>>)),
          O1(T_users, JArr(<<JNull, JNull>>)),
          O1(T_users, JArr(<<JNum(5), JStr(T_ok)>>)),
          O1(T_users, JArr(<<O1(T_constructor, JNum(1)), O1(T_id, JNum(2))>>)),
          O1(T_users, JArr(<<O2(T_id, JNum(1), T_a, JNull), O2(T_a, JNum(2), T_id, JNum(2)),
                             O2(T_name, JStr(T_ok), T_a, JNum(3))>>)),
          O1(T_users, JArr(<<O1(T_id, JNum(1234567)), JStr(T_ok), JArr(<<JTrue>>)>>)),
          O1(T_users, JArr(<<O3(T_a, JNull, T_id, JFalse, T_name, JStr([i \in 1..(CELL_MAX + 1) |-> "x"]))>>)),
          O2(T_users, O1(T_aggregate, O1(T_count, JNum(3))), T_order_items, O1(T_aggregate, JNull)),
          O2(T_users, O1(T_aggregate, JNum(5)), T_order_items, JArr(RowsOf(2, "id"))),
          JArr(RowsOf(2, "id")),
          JArr(<<JArr(RowsOf(2, "id"))>>),
          JNull, JStr(T_ok), JNum(5), JObj(<<>>)}
    \cup AggData
    \cup CellData

InitTable ==
    /\ pc = "mounted"
    /\ res = NoResult
    /\ input = <<>>
    /\ output = Absent
    /\ dataProp \in TableData

RenderDataTable ==
    /\ pc = "mounted"
    /\ pc' = "rendered"
    /\ res' = [fn |-> "DataTable", view |-> DataTable(dataProp)]
    /\ UNCHANGED <<input, output, dataProp>>

NextTable == RenderDataTable

SpecTable == InitTable /\ [][NextTable]_vars

(***************************************************************************)
(* SpecSDL: one render of GraphQLSDLDisplay with the prop data.            *)
(***************************************************************************)
\* the longest tail of fragments after the schema block
MaxSDLFrags == 4

SDLHeads ==
    { <<"s", "c", "h", "e", "m", "a", " ", "{", " ", "q", "u", "e", "r", "y", ":", " ", "Q", " ", "}", " ">>,
      <<"s", "c", "h", "e", "m", "a", "{", "m", "u", "t", "a", "t", "i", "o", "n", ":", "M", "}", NL>> }

SDLFrags ==
    { <<" ">>, <<TAB>>, <<NL>>, <<BSL, "t">>, T_type, T_enum, <<"Q">> }

SDLTexts ==
    {h \o Concat(fs) : h \in SDLHeads, fs \in SeqsUpTo(SDLFrags, MaxSDLFrags)}
    \cup { <<"s", "c", "h", "e", "m", "a", " ", "{", " ", "q", "u", "e", "r", "y", ":", " ", "Q", "u", "e", "r", "y", " ", "}", " ", "t", "y", "p", "e", " ", "Q", "u", "e", "r", "y", " ", "{", " ", "i", "d", ":", " ", "I", "D", " ", "}", " ", "e", "n", "u", "m", " ", "C", "o", "l", "o", "r", " ", "{", " ", "R", "E", "D", " ", "}">>,
           <<"t", "y", "p", "e", " ", "A", " ", "s", "c", "h", "e", "m", "a", " ", "{", "}", " ", "s", "c", "h", "e", "m", "a", " ", "{", " ", "s", "u", "b", "s", "c", "r", "i", "p", "t", "i", "o", "n", ":", NL, "S", " ", "q", "u", "e", "r", "y", ":", "}", " ", "d", "i", "r", "e", "c", "t", "i", "v", "e", " ", "@", "d", "e", "p", " ", "d", "i", "r", "e", "c", "t", "i", "v", "e", " ", " ", "@", "x">>,
           <<"s", "c", "h", "e", "m", "a">>,
           <<>> }

SDLData ==
    {O1(T_text, JStr(t)) : t \in SDLTexts}
    \cup {JArr(<<TextElem(JStr(t))>>) : t \in {h \o Concat(fs) : h \in SDLHeads, fs \in SeqsUpTo(SDLFrags, 1)}}
    \cup {JArr(<<JNull>>), JArr(<<>>), JArr(<<TextElem(JNum(5))>>), JArr(<<TextElem(JObj(<<>>))>>),
          JArr(<<TextElem(JArr(<<JStr(T_schema), JStr(T_type)>>))>>),
          JArr(<<TextElem(JArr(<<JStr(T_schema)>>))>>),
          O1(T_text, JNum(5)), JNull, JStr(T_schema), JObj(<<>>)}

InitSDL ==
    /\ pc = "mounted"
    /\ res = NoResult
    /\ input = <<>>
    /\ output = Absent
    /\ dataProp \in SDLData

RenderSDLDisplay ==
    /\ pc = "mounted"
    /\ pc' = "rendered"
    /\ res' = [fn |-> "GraphQLSDLDisplay", view |-> GraphQLSDLDisplay(dataProp)]
    /\ UNCHANGED <<input, output, dataProp>>

NextSDL == RenderSDLDisplay

SpecSDL == InitSDL /\ [][NextSDL]_vars

(***************************************************************************)
(* SpecSchema: one render of GraphQLSchemaDisplay with the prop data.      *)
(***************************************************************************)
\* the most types of a document, and the most fields of a type, of the catalog
MaxTypes == 23

MaxFields == 12

T_Int == <<"I", "n", "t">>

T_ID == <<"I", "D">>

\* k fields; every other one names its type through ofType
FieldsOf(k) ==
    [j \in 1..k |->
        O2(T_name, JStr(<<"f">> \o natToText(j)),
           T_type, IF j % 2 = 1 THEN O1(T_name, JStr(T_Int))
                   ELSE O2(T_name, JNull, T_ofType, O1(T_name, JStr(T_ID))))]

\* the i-th type of a document: i - 1 fields, counted modulo MaxFields + 1
TypeOf(i, name) ==
    O3(T_name, JStr(name), T_kind, JStr(<<"O", "B", "J", "E", "C", "T">>),
       T_fields, JArr(FieldsOf((i - 1) % (MaxFields + 1))))

\* n types: none an introspection type ("plain"), the first two ("lead"), or
\* every third ("mixed")
TypesOf(n, shape) ==
    [i \in 1..n |->
        IF (shape = "lead" /\ i <= 2) \/ (shape = "mixed" /\ i % 3 = 0)
        THEN TypeOf(i, <<"_", "_", "T">> \o natToText(i))
        ELSE TypeOf(i, <<"T">> \o natToText(i))]

SchemaDocs ==
    {O2(T_queryType, O1(T_name, JStr(<<"Q">>)), T_types, JArr(TypesOf(n, shape))) :
        n \in 0..MaxTypes, shape \in {"plain", "lead", "mixed"}}

SchemaData ==
    SchemaDocs
    \cup {O1(T___schema, d) : d \in SchemaDocs}
    \cup {O1(T_data, O1(T___schema, d)) : d \in SchemaDocs}
    \cup {O1(T_types, JArr(<<JNull>>)),
          O1(T_types, Rows2),
          O1(T_types, JArr(<<O2(T_name, JStr(<<"E">>), T_enumValues, JArr(<<O1(T_name, JStr(<<"R">>))>>))>>)),
          O1(T_types, JArr(<<O2(T_name, JStr(<<"E">>), T_fields, JStr(T_ok))>>)),
          O1(T_types, JArr(<<O2(T_name, JStr(<<"E">>), T_fields, JArr(<<JNull>>))>>)),
          O1(T___schema, JNum(5)),
          O1(T_mutationType, JStr(T_ok)),
          O1(T_a, JNum(1)), JNull, JStr(T_ok), JArr(<<>>)}

InitSchema ==
    /\ pc = "mounted"
    /\ res = NoResult
    /\ input = <<>>
    /\ output = Absent
    /\ dataProp \in SchemaData

RenderSchemaDisplay ==
    /\ pc = "mounted"
    /\ pc' = "rendered"
    /\ res' = [fn |-> "GraphQLSchemaDisplay", view |-> GraphQLSchemaDisplay(dataProp)]
    /\ UNCHANGED <<input, output, dataProp>>

NextSchema == RenderSchemaDisplay

SpecSchema == InitSchema /\ [][NextSchema]_vars

(***************************************************************************)
(* SpecEscape: the two places where getPythonResultData parses a text that *)
(* may be escaped once more than JSON asks, applied to the escaped         *)
(* serialization of a value.  dataProp holds the value that was            *)
(* serialized, input the escaped text.                                     *)
(***************************************************************************)
\* the longest string inside an escaped value
MaxEscLen == 3

EscChars == {"a", BSL, QUOTE, "n", "t"}

EscStrings == SeqsUpTo(EscChars, MaxEscLen)

EscValues ==
    {JStr(s) : s \in EscStrings}
    \cup {O2(T_success, JTrue, T_output, JStr(s)) : s \in EscStrings}
    \cup {JArr(<<JStr(s), JNum(5)>>) : s \in EscStrings}
    \cup {JNum(5), JTrue, JArr(<<>>)}

\* the text with every quote and backslash escaped once more
escapedOnce(text) == quoteChars(text)

InitEscape ==
    /\ pc = "ready"
    /\ res = NoResult
    /\ output = Absent
    /\ dataProp \in EscValues
    /\ input = escapedOnce(JSONstringify(dataProp))

Parsed(fn, r) ==
    /\ pc = "ready"
    /\ pc' = "returned"
    /\ res' = The({ [fn |-> fn, thrown |-> o.thrown, val |-> o.val] : o \in {r} })
    /\ UNCHANGED <<input, output, dataProp>>

ParseInnerText == Parsed("parseInnerText", parseInnerText(input))

ParseExtracted == Parsed("parseExtracted", parseExtracted(input))

NextEscape == ParseInnerText \/ ParseExtracted

SpecEscape == InitEscape /\ [][NextEscape]_vars

(***************************************************************************)
(* SpecNormalize: the five places where a text is unescaped, each applied  *)
(* to a text of backslashes, quotes and letters.                           *)
(***************************************************************************)
\* the longest text unescaped
MaxNormLen == 4

NormTexts == SeqsUpTo(EscChars, MaxNormLen)

InitNormalize ==
    /\ pc = "ready"
    /\ res = NoResult
    /\ output = Absent
    /\ dataProp = Undefined
    /\ input \in NormTexts

Normalized(fn, text) ==
    /\ pc = "ready"
    /\ pc' = "returned"
    /\ res' = [fn |-> fn, thrown |-> FALSE, val |-> JStr(text)]
    /\ UNCHANGED <<input, output, dataProp>>

\* QueryDisplay's formattedQuery
NormalizeQuery == Normalized("formatQuery", formatQuery(input))

\* PythonCodeDisplay's formattedCode
NormalizeCode == Normalized("formatCode", formatCode(input))

\* GraphQLSDLDisplay's cleanedSchema
NormalizeSDL == Normalized("cleanSchema", cleanSchema(input))

\* getPythonResultData's cleanup of the envelope's inner text
NormalizeInnerText == Normalized("cleanInnerText", cleanInnerText(input))

\* getPythonResultData's cleanup of the extracted text field
NormalizeExtracted == Normalized("unescapeExtracted", unescapeExtracted(input))

NextNormalize ==
    \/ NormalizeQuery
    \/ NormalizeCode
    \/ NormalizeSDL
    \/ NormalizeInnerText
    \/ NormalizeExtracted

SpecNormalize == InitNormalize /\ [][NextNormalize]_vars

(***************************************************************************)
(* SpecScan: the scan for the end of the text field in the catch block of  *)
(* getPythonResultData, one iteration of its for loop at a time.  input    *)
(* holds cleanedText and res the loop's variables.                         *)
(***************************************************************************)
\* the longest text field value scanned
MaxScanLen == 5

ScanChars == {"a", BSL, QUOTE}

T_textFieldOpen == <<"[", "{", QUOTE, "t", "y", "p", "e", QUOTE, ":", QUOTE, "t", "e", "x", "t", QUOTE, ",", QUOTE, "t", "e", "x", "t", QUOTE, ":", QUOTE>>

\* texts that pass cleanedText.startsWith('[') && cleanedText.includes('"type":"text"'):
\* an envelope cut anywhere inside or after its text value, and one without a
\* text field
ScanTexts ==
    {T_textFieldOpen \o body : body \in SeqsUpTo(ScanChars, MaxScanLen)}
    \cup {<<"[", QUOTE, "t", "y", "p", "e", QUOTE, ":", QUOTE, "t", "e", "x", "t", QUOTE, "]">>}

InitScan ==
    /\ pc = "ready"
    /\ res = NoResult
    /\ output = Absent
    /\ dataProp = JNull
    /\ input \in ScanTexts

\* const textFieldStart = ...; if (textFieldStart > 7) { let textFieldEnd =
\* textFieldStart; let escapeCount = 0; for (let i = textFieldStart; ...
scanInit(cleanedText) ==
    The({ [fn |-> "scan", textFieldStart |-> textFieldStart, textFieldEnd |-> textFieldStart,
           escapeCount |-> 0, i |-> textFieldStart, entered |-> textFieldStart > 7] :
          textFieldStart \in {indexOf(cleanedText, <<QUOTE, "t", "e", "x", "t", QUOTE, ":", QUOTE>>) + 8} })

\* a loop body that never leaves a backslash
scanStep_stuckOnBackslash(cleanedText, l) ==
    IF cleanedText[l.i + 1] = BSL
    THEN [l EXCEPT !.escapeCount = (l.escapeCount + 1) % 2]
    ELSE IF cleanedText[l.i + 1] = QUOTE /\ l.escapeCount % 2 = 0
    THEN [l EXCEPT !.textFieldEnd = l.i, !.entered = FALSE]
    ELSE [l EXCEPT !.escapeCount = 0, !.i = l.i + 1]

\* a loop body for which any backslash before a quote escapes it
scanStep_anyBackslashEscapes(cleanedText, l) ==
    IF cleanedText[l.i + 1] = BSL
    THEN [l EXCEPT !.escapeCount = l.escapeCount + 1, !.i = l.i + 1]
    ELSE IF cleanedText[l.i + 1] = QUOTE /\ l.escapeCount = 0
    THEN [l EXCEPT !.textFieldEnd = l.i, !.entered = FALSE]
    ELSE [l EXCEPT !.escapeCount = 0, !.i = l.i + 1]

\* one iteration of the for loop, its i++ included; entered becomes FALSE at
\* the break
scanStep(cleanedText, l) ==
    IF cleanedText[l.i + 1] = BSL
    THEN [l EXCEPT !.escapeCount = l.escapeCount + 1, !.i = l.i + 1]
    ELSE IF cleanedText[l.i + 1] = QUOTE /\ l.escapeCount % 2 = 0
    THEN [l EXCEPT !.textFieldEnd = l.i, !.entered = FALSE]
    ELSE [l EXCEPT !.escapeCount = 0, !.i = l.i + 1]

ScanStart ==
    /\ pc = "ready"
    /\ res' = scanInit(input)
    /\ pc' = IF res'.entered THEN "loop" ELSE "done"
    /\ UNCHANGED <<input, output, dataProp>>

\* i < cleanedText.length: the body runs
ScanStep ==
    /\ pc = "loop"
    /\ res.i < Len(input)
    /\ res' = scanStep(input, res)
    /\ pc' = IF res'.entered THEN "loop" ELSE "done"
    /\ UNCHANGED <<input, output, dataProp>>

\* i < cleanedText.length fails: the loop is left
ScanExit ==
    /\ pc = "loop"
    /\ res.i >= Len(input)
    /\ pc' = "done"
    /\ UNCHANGED <<input, output, dataProp, res>>

NextScan == ScanStart \/ ScanStep \/ ScanExit

SpecScan == InitScan /\ [][NextScan]_vars

\* the loop is a sequential loop of one synchronous call: an iteration that
\* can run does run
SpecScanFair == SpecScan /\ WF_vars(NextScan)

\* the loop, run step by step, ends with the textFieldEnd that textFieldScan
\* computes
ScanAgrees ==
    pc = "done" /\ res.textFieldStart > 7 =>
        res.textFieldEnd = textFieldScan(input, res.textFieldStart)

(***************************************************************************)
(* Properties.                                                             *)
(***************************************************************************)
TEXT_null == <<"[", "n", "u", "l", "l", "]">>

\* C1 (SpecCall): whatever the text, a classifier hands its caller a matched
\* value (an object or an array) or null, and never an exception.
ClassifiersNeverRaise ==
    pc = "returned" => ~res.thrown /\ res.val.t \in {"null", "obj", "arr"}

\* getTabularData was called on "[null]", whose first element has no
\* property to read, and returned null
ClassifiersNeverRaiseWitness ==
    /\ pc = "returned"
    /\ res.fn = "getTabularData"
    /\ output = Text(TEXT_null)
    /\ res.val = JNull

\* the response categories in the order of the claim
matchesSchema == truthy(getGraphQLSchemaData(output).val)

matchesSDL == truthy(getGraphQLSDLData(output).val)

matchesTabular == truthy(getTabularData(output).val)

\* C2 (Spec): a shown response gets exactly one of the four categories; a
\* schema match wins over SDL and tabular, an SDL match over tabular, and
\* plain text is chosen exactly when no classifier matches.
ResponseOrder ==
    pc = "rendered" /\ outputShown(output) =>
        /\ res.responseCategory \in {"GraphQLSchema", "GraphQLSDL", "TabularData", "PlainText"}
        /\ matchesSchema => res.responseCategory = "GraphQLSchema"
        /\ ~matchesSchema /\ matchesSDL => res.responseCategory = "GraphQLSDL"
        /\ ~matchesSchema /\ ~matchesSDL /\ matchesTabular => res.responseCategory = "TabularData"
        /\ res.responseCategory = "PlainText" <=> ~matchesSchema /\ ~matchesSDL /\ ~matchesTabular

\* a response that is a schema and a table at once was shown as a schema
ResponseOrderWitness ==
    /\ pc = "rendered"
    /\ outputShown(output)
    /\ matchesSchema
    /\ matchesTabular
    /\ res.responseCategory = "GraphQLSchema"

\* the parsed response, when the response is a JSON text
parsedOutput == JSONparse(output.s)

\* C3 (Spec): a response that is an object with `success` and one of
\* `output`, `error`, `plot` is shown as a Python result, whatever else it
\* matches.
PythonResultFirst ==
    pc = "rendered" /\ outputShown(output) /\ ~parsedOutput.thrown
        /\ parsedOutput.val.t = "obj" /\ isPythonResult(parsedOutput.val)
    => res.responseCategory = "PythonResult"

\* C4 (Spec): the request is a GraphQL query when the query classifier
\* matches, else Python code when the code classifier matches, else plain
\* text.
RequestOrder ==
    pc = "rendered" =>
        res.requestCategory =
            IF truthy(getGraphQLQueryData(input).val) THEN "GraphQLQuery"
            ELSE IF truthy(getPythonCodeData(input).val) THEN "PythonCode"
            ELSE "PlainText"

parsedInput == JSONparse(input)

\* the request is a JSON object with a string `query` and neither `code`
\* nor `success`
hasStringQuery ==
    /\ ~parsedInput.thrown
    /\ parsedInput.val.t = "obj"
    /\ isString(prop(parsedInput.val, T_query))
    /\ ~hasOwn(parsedInput.val, T_code)
    /\ ~hasOwn(parsedInput.val, T_success)

\* C5 as stated (Spec): every such request, the empty query included, is a
\* GraphQL query.
StringQueryIsGraphQLQuery ==
    pc = "rendered" /\ hasStringQuery => res.requestCategory = "GraphQLQuery"

\* C5 (Spec): a JSON object request with a non-empty string `query` and
\* neither `code` nor `success` is a GraphQL query; with the empty string it
\* is plain text.
NonEmptyQueryIsGraphQLQuery ==
    pc = "rendered" /\ hasStringQuery =>
        res.requestCategory =
            IF prop(parsedInput.val, T_query).s # <<>> THEN "GraphQLQuery" ELSE "PlainText"

\* a request whose query is a non-empty string was shown as a query
NonEmptyQueryWitness ==
    /\ pc = "rendered"
    /\ hasStringQuery
    /\ prop(parsedInput.val, T_query).s = T_ok
    /\ res.requestCategory = "GraphQLQuery"

\* the query text of the request
queryText == prop(parsedInput.val, T_query).s

\* the text has a SQL keyword, in any letter case, with no word character
\* right before or right after it
hasKeywordAtBoundaries(q) ==
    \E w \in SQLKeywords : \E i \in 1..Len(q) :
        /\ i + Len(w) - 1 <= Len(q)
        /\ [j \in 1..Len(w) |-> toUpperChar(q[i + j - 1])] = w
        /\ i = 1 \/ q[i - 1] \notin WordChar
        /\ i + Len(w) > Len(q) \/ q[i + Len(w)] \notin WordChar

\* the text starts, blanks aside, with an operation keyword, or has both braces
looksLikeOperation(q) ==
    \/ \E kw \in {T_query, T_mutation, T_subscription} :
          \E i \in 1..(Len(q) + 1) :
              /\ \A j \in 1..(i - 1) : q[j] \in WhiteSpace
              /\ MatchAt(q, kw, i)
    \/ (\E i \in 1..Len(q) : q[i] = "{") /\ (\E i \in 1..Len(q) : q[i] = "}")

\* C6 (Spec): for a request shown as a query, the kind is GraphQL when the
\* text looks like an operation, SQL when it does not and has a SQL keyword at
\* word boundaries, and generic otherwise.
QueryKind ==
    pc = "rendered" /\ res.requestCategory = "GraphQLQuery" =>
        /\ res.query.rendered
        /\ res.query.queryType =
              IF looksLikeOperation(queryText) THEN "GraphQL Query"
              ELSE IF hasKeywordAtBoundaries(queryText) THEN "SQL Query"
              ELSE "Query"

\* a query with a SQL keyword and no sign of an operation was shown as SQL
QueryKindWitness ==
    /\ pc = "rendered"
    /\ res.requestCategory = "GraphQLQuery"
    /\ hasKeywordAtBoundaries(queryText)
    /\ ~looksLikeOperation(queryText)
    /\ res.query.queryType = "SQL Query"

\* the response with the closing brace it lacks
completedOutput == JSONparse(output.s \o <<"}">>)

\* C7 (SpecCall): a text with the Python result markers that is a JSON object
\* but for its final closing brace is recovered as that object, with every
\* field.
TruncationRepairRecovers ==
    /\ pc = "returned"
    /\ res.fn = "getPythonResultData"
    /\ output.present
    /\ hasPythonResultPattern(output.s)
    /\ startsWith(output.s, <<"{">>)
    /\ parsedOutput.thrown
    /\ ~completedOutput.thrown
    /\ completedOutput.val.t = "obj"
    /\ hasOwn(completedOutput.val, T_success)
    => res.val = completedOutput.val

\* the array fields of the data whose elements are all objects, one of them
\* with a property
objectArrayFields ==
    {i \in 1..Len(dataProp.kv) :
        /\ isArray(dataProp.kv[i].v)
        /\ \A j \in 1..Len(dataProp.kv[i].v.items) : dataProp.kv[i].v.items[j].t = "obj"
        /\ \E j \in 1..Len(dataProp.kv[i].v.items) : dataProp.kv[i].v.items[j].kv # <<>>}

\* the table shown for the field of position i
tableFor(i) ==
    CHOOSE t \in {res.view.arrays.tables[n] : n \in 1..Len(res.view.arrays.tables)} :
        t.shown /\ t.key = dataProp.kv[i].k

\* C8 (SpecTable): the table of an array field of n objects has the first
\* min(n, 50) elements as its rows, in order; it says "Showing first 50 of n"
\* exactly when n > 50, and its heading counts n records.
RowCap ==
    pc = "rendered" /\ dataProp.t = "obj" =>
        \A i \in objectArrayFields :
            LET items == dataProp.kv[i].v.items
                n == Len(items)
                t == tableFor(i)
            IN  /\ \E k \in 1..Len(res.view.arrays.tables) :
                      res.view.arrays.tables[k].shown /\ res.view.arrays.tables[k].key = dataProp.kv[i].k
                /\ Len(t.rows) = (IF n < 50 THEN n ELSE 50)
                /\ \A r \in 1..Len(t.rows) :
                      t.rows[r] = [c \in 1..Len(t.columns) |-> renderValue(member(items[r], t.columns[c]))]
                /\ t.note <=> n > 50
                /\ t.note => t.noteTotal = n
                /\ t.records = n

\* a field of more than 50 objects was shown as 50 rows with the note
RowCapWitness ==
    /\ pc = "rendered"
    /\ dataProp.t = "obj"
    /\ \E i \in objectArrayFields :
          /\ Len(dataProp.kv[i].v.items) > 50
          /\ Len(tableFor(i).rows) = 50
          /\ tableFor(i).note

\* the words captured by keyword \s+ (\w+) in the cleaned text, in order
capturedNames(keyword) ==
    LET ms == matchAll(res.view.cleanedSchema, keyword, <<>>, 1, <<>>)
    IN  [i \in 1..Len(ms) |-> ms[i].group]

\* C9 (SpecSDL): the type names and the enum names of a rendered SDL text
\* are the captured words, with no blank and no keyword text, and queryType is
\* the word after `query:` in the first schema block.
SDLNamesAreCapturedWords ==
    pc = "rendered" /\ res.view.rendered =>
        /\ res.view.schemaInfo.types = capturedNames(T_type)
        /\ res.view.schemaInfo.enums = capturedNames(T_enum)
        /\ \A i \in 1..Len(res.view.schemaInfo.types) :
              \A j \in 1..Len(res.view.schemaInfo.types[i]) :
                  res.view.schemaInfo.types[i][j] \in WordChar

\* no response classifier matches the response
matchesNone == ~matchesSchema /\ ~matchesSDL /\ ~matchesTabular

ReclassificationIsIdempotent ==
    pc = "reclassified" =>
        /\ truthy(res.val)
        /\ res.fn = "getPythonCodeData" => ~truthy(getGraphQLQueryData(input).val)

\* C12 (SpecCall): the tables of a value the tabular classifier accepted are
\* rendered without an exception, also when an array field holds an object
\* first and null later.
TabularProjectionNeverRaises ==
    pc = "shown" /\ res.fn = "DataTable" => ~res.view.thrown

\* C13 (SpecCall): the schema display of a value the schema classifier
\* accepted is rendered without an exception, also when an element of `types`
\* is null or has no string `name`.
SchemaExtractionNeverRaises ==
    pc = "shown" /\ res.fn = "GraphQLSchemaDisplay" => ~res.view.thrown

\* C14 (SpecEscape): when the once-escaped serialization of a value is no
\* JSON text itself and the parse after the cleanup succeeds, the value read
\* is the value that was serialized.
EscapeRecoveryFidelity ==
    pc = "returned" /\ JSONparse(input).thrown /\ ~res.thrown => res.val = dataProp

\* an output holding a quote and a backslash was recovered from its escaped
\* serialization
EscapeRecoveryWitness ==
    /\ pc = "returned"
    /\ res.fn = "parseInnerText"
    /\ dataProp = O2(T_success, JTrue, T_output, JStr(<<"a", QUOTE, BSL>>))
    /\ JSONparse(input).thrown
    /\ ~res.thrown
    /\ res.val = dataProp

\* the types of the document shown: those of __schema, of data.__schema, or
\* of the document itself
documentTypes ==
    IF hasOwn(dataProp, T___schema) THEN prop(prop(dataProp, T___schema), T_types).items
    ELSE IF hasOwn(dataProp, T_data) THEN prop(prop(prop(dataProp, T_data), T___schema), T_types).items
    ELSE prop(dataProp, T_types).items

\* the positions of the types whose name does not start with two underscores
namedPositions ==
    {i \in 1..Len(documentTypes) :
        LET name == prop(documentTypes[i], T_name).s
        IN  ~(Len(name) >= 2 /\ name[1] = "_" /\ name[2] = "_")}

\* the k-th such position
namedPosition(k) ==
    CHOOSE i \in namedPositions : Cardinality({j \in namedPositions : j < i}) = k - 1

\* the documents of the catalog that are introspection documents: each type
\* an object with a name and an array of fields
wellFormedDocument ==
    /\ dataProp \in SchemaData
    /\ dataProp.t = "obj"
    /\ \E d \in SchemaDocs : dataProp \in {d, O1(T___schema, d), O1(T_data, O1(T___schema, d))}

\* C15 (SpecSchema): the types shown are the first 20, in order, of the types
\* whose name does not start with `__`; each shows its first 10 fields; the
\* note gives the count of those types exactly when it exceeds 20, and a type
\* shows its field count minus 10 exactly when it has more than 10 fields.
SchemaCaps ==
    pc = "rendered" /\ wellFormedDocument =>
        LET shown == res.view.types.types
            kept == Cardinality(namedPositions)
        IN  /\ res.view.rendered
            /\ Len(shown) = (IF kept < 20 THEN kept ELSE 20)
            /\ \A k \in 1..Len(shown) :
                  LET type == documentTypes[namedPosition(k)]
                      fields == prop(type, T_fields).items
                  IN  /\ shown[k].name = prop(type, T_name)
                      /\ Len(shown[k].fields) = (IF Len(fields) < 10 THEN Len(fields) ELSE 10)
                      /\ \A j \in 1..Len(shown[k].fields) :
                            shown[k].fields[j].name = prop(fields[j], T_name)
                      /\ shown[k].moreFields = (IF Len(fields) > 10 THEN Len(fields) - 10 ELSE 0)
            /\ res.view.types.note <=> kept > 20
            /\ res.view.types.note => res.view.types.noteTotal = kept

\* a document with introspection types and more than 20 others was shown
\* with 20 types and the note, one of the types with more than 10 fields
SchemaCapsWitness ==
    /\ pc = "rendered"
    /\ wellFormedDocument
    /\ Cardinality(namedPositions) > 20
    /\ Cardinality(namedPositions) < Len(documentTypes)
    /\ Len(res.view.types.types) = 20
    /\ res.view.types.note
    /\ \E k \in 1..20 : res.view.types.types[k].moreFields > 0

\* the response is a text envelope, [{type:"text", text:p}], around a
\* non-empty payload p
isEnvelope ==
    /\ output.present
    /\ ~parsedOutput.thrown
    /\ isArray(parsedOutput.val)
    /\ Len(parsedOutput.val.items) = 1
    /\ parsedOutput.val.items[1].t = "obj"
    /\ Len(parsedOutput.val.items[1].kv) = 2
    /\ prop(parsedOutput.val.items[1], T_type) = JStr(T_text)
    /\ isString(prop(parsedOutput.val.items[1], T_text))
    /\ prop(parsedOutput.val.items[1], T_text).s # <<>>

envelopePayload == prop(parsedOutput.val.items[1], T_text).s

\* what a classification extracts for the display of its category
extractedOf(view) ==
    CASE view.responseCategory = "GraphQLSchema" -> view.graphqlSchemaData
      [] view.responseCategory = "GraphQLSDL" -> GraphQLSDLDisplay(view.graphqlSDLData)
      [] view.responseCategory = "TabularData" -> view.tabularData
      [] OTHER -> JStr(view.responseText)

\* C16 (Spec): a text envelope is classified as its payload is: the same
\* category and the same extracted data.
EnvelopeTransparency ==
    pc = "rendered" /\ isEnvelope =>
        \A bare \in {ToolCallInfo(input, Text(envelopePayload))} :
            /\ res.responseCategory = bare.responseCategory
            /\ extractedOf(res) = extractedOf(bare)

\* C17 (SpecScanFair): the scan for the end of the text field ends; every
\* iteration that does not end it advances the index by one, and the index
\* never passes the end of the text.
ScanTerminates ==
    /\ [][pc = "loop" /\ pc' = "loop" => res'.i = res.i + 1]_vars
    /\ [](pc \in {"loop", "done"} => res.i <= Len(input))
    /\ <>(pc = "done")

\* the scan ran through a text value with a backslash in it and no unescaped
\* closing quote, up to the end of the text, and left textFieldEnd where it was
ScanTerminatesWitness ==
    /\ pc = "done"
    /\ res.fn = "scan"
    /\ res.i = Len(input)
    /\ res.i > res.textFieldStart + 1
    /\ res.textFieldEnd = res.textFieldStart
    /\ \E k \in (res.textFieldStart + 1)..Len(input) : input[k] = BSL

\* the text holds the quoted word, with plain or with escaped quotes
hasMarker(text, word) ==
    \E m \in {<<QUOTE>> \o word \o <<QUOTE>>, <<BSL, QUOTE>> \o word \o <<BSL, QUOTE>>} :
        \E i \in 1..Len(text) :
            /\ i + Len(m) - 1 <= Len(text)
            /\ SubSeq(text, i, i + Len(m) - 1) = m

\* C18 (SpecCall): for a text without the success marker, or with none of
\* the plot, output and error markers, getPythonResultData returns null and
\* attempts no parse and no repair.
PreFilterGate ==
    /\ pc = "returned"
    /\ res.fn = "getPythonResultData"
    /\ \/ ~hasMarker(output.s, T_success)
       \/ /\ ~hasMarker(output.s, T_plot)
          /\ ~hasMarker(output.s, T_output)
          /\ ~hasMarker(output.s, T_error)
    => ~res.thrown /\ res.val = JNull /\ res.attempts = <<>>

\* getPythonResultData returned null, without a parse, for a text that is an
\* array whose first element carries success and that has no plot, output or
\* error marker
PreFilterGateWitness ==
    /\ pc = "returned"
    /\ res.fn = "getPythonResultData"
    /\ hasMarker(output.s, T_success)
    /\ ~hasMarker(output.s, T_plot) /\ ~hasMarker(output.s, T_output) /\ ~hasMarker(output.s, T_error)
    /\ ~parsedOutput.thrown
    /\ isArray(parsedOutput.val)
    /\ Len(parsedOutput.val.items) > 0
    /\ ~nullish(parsedOutput.val.items[1])
    /\ prop(parsedOutput.val.items[1], T_success) # Undefined
    /\ res.val = JNull
    /\ res.attempts = <<>>

\* C19 (SpecCall): what getPythonResultData returns as a match carries
\* success and one of output, error, plot, and PythonResultDisplay renders it.
AcceptedResultsAreShown ==
    /\ pc = "returned" /\ res.fn = "getPythonResultData" /\ truthy(res.val)
       => isPythonResult(res.val)
    /\ pc = "shown" /\ res.fn = "PythonResultDisplay"
       => res.view.rendered

\* C20 (SpecCall): getPythonResultData attempts the text-field extraction
\* and the brace repair only on a text that JSON.parse rejects.
RepairsOnlyAfterParseFailed ==
    pc = "returned" /\ res.fn = "getPythonResultData" /\ ~parsedOutput.thrown
    => \A k \in 1..Len(res.attempts) : res.attempts[k] \notin {"extract", "repair"}

\* The scan with a flag: a backslash sets the flag for the next character, a
\* flagged character is passed over, and a quote that is not flagged ends the
\* value.  i is the 0-based index; the result is the index of the ending
\* quote, or -1 when the text runs out.
RECURSIVE flagScan(_, _, _)
flagScan(s, i, escaped) ==
    IF i >= Len(s) THEN -1
    ELSE IF escaped THEN flagScan(s, i + 1, FALSE)
    ELSE IF s[i + 1] = BSL THEN flagScan(s, i + 1, TRUE)
    ELSE IF s[i + 1] = QUOTE THEN i
    ELSE flagScan(s, i + 1, FALSE)

\* the character at the 0-based index e is a quote with an even number of
\* consecutive backslashes right before it, counted back to start
evenlyEscapedQuote(s, start, e) ==
    /\ s[e + 1] = QUOTE
    /\ \E n \in 0..(e - start) :
          /\ n % 2 = 0
          /\ \A k \in 1..n : s[e + 1 - k] = BSL
          /\ e - n = start \/ s[e - n] # BSL

\* C21 (SpecScan): the loop's textFieldEnd is the quote the flag scan ends
\* at, which is the first quote after the first "text":" with an even number
\* of backslashes right before it; without such a quote textFieldEnd stays at
\* textFieldStart; what is extracted is the text between the two.
ScanIsEscapeAware ==
    pc = "done" /\ res.fn = "scan" /\ res.textFieldStart > 7 =>
        \A e \in {flagScan(input, res.textFieldStart, FALSE)} :
            /\ MatchAt(input, <<QUOTE, "t", "e", "x", "t", QUOTE, ":", QUOTE>>, res.textFieldStart - 7)
            /\ \A j \in 1..(res.textFieldStart - 8) :
                  ~MatchAt(input, <<QUOTE, "t", "e", "x", "t", QUOTE, ":", QUOTE>>, j)
            /\ res.textFieldEnd = (IF e = -1 THEN res.textFieldStart ELSE e)
            /\ e # -1 =>
                  /\ evenlyEscapedQuote(input, res.textFieldStart, e)
                  /\ \A f \in res.textFieldStart..(e - 1) :
                        ~evenlyEscapedQuote(input, res.textFieldStart, f)
                  /\ substring(input, res.textFieldStart, res.textFieldEnd)
                        = SubSeq(input, res.textFieldStart + 1, e)
            /\ e = -1 =>
                  \A f \in res.textFieldStart..(Len(input) - 1) :
                      ~evenlyEscapedQuote(input, res.textFieldStart, f)

\* the scan passed an escaped quote and ended at a quote with two backslashes
\* before it
ScanIsEscapeAwareWitness ==
    /\ pc = "done"
    /\ res.fn = "scan"
    /\ res.textFieldEnd >= res.textFieldStart + 3
    /\ input[res.textFieldEnd + 1] = QUOTE
    /\ input[res.textFieldEnd] = BSL
    /\ input[res.textFieldEnd - 1] = BSL
    /\ \E k \in (res.textFieldStart + 1)..(res.textFieldEnd - 2) : input[k] = QUOTE

\* the DataTable of the value shows the aggregate table or a table of an
\* array field
projectsATable(d) ==
    \A view \in {DataTable(d)} :
        \/ view.aggregate.rendered
        \/ \E i \in 1..Len(view.arrays.tables) : view.arrays.tables[i].shown

\* C22 (Spec): the data extracted for a TabularData response has a field that
\* is a non-empty array of objects or a field that is an object with an
\* aggregate key, and its DataTable shows at least one table.
TabularDataHasTables ==
    pc = "rendered" /\ res.responseCategory = "TabularData" =>
        /\ someRowArray(res.tabularData) \/ someAggregate(res.tabularData)
        /\ projectsATable(res.tabularData)

\* the payload of a text envelope: the parse of the first element's text, for
\* an array whose first element has type "text"
envelopeInner(parsed) ==
    IF /\ isArray(parsed)
       /\ Len(parsed.items) > 0
       /\ ~nullish(parsed.items[1])
       /\ prop(parsed.items[1], T_type) = JStr(T_text)
    THEN JSONparseValue(prop(parsed.items[1], T_text))
    ELSE Threw

\* the first accepted of the five candidates, in the order top-level .data,
\* envelope inner .data, envelope inner object, top-level object, top-level
\* bare array (wrapped under data); null when none is accepted
firstTabularCandidate(parsed) ==
    \* top-level .data
    IF parsed.t = "obj" /\ truthy(prop(parsed, T_data)) /\ isObjectType(prop(parsed, T_data))
    THEN prop(parsed, T_data)
    ELSE The({
        \* envelope inner .data
        IF /\ ~inner.thrown /\ truthy(inner.val) /\ isObjectType(inner.val)
           /\ truthy(prop(inner.val, T_data)) /\ isObjectType(prop(inner.val, T_data))
        THEN prop(inner.val, T_data)
        \* envelope inner object
        ELSE IF /\ ~inner.thrown /\ truthy(inner.val) /\ isObjectType(inner.val)
                /\ someRowArray(inner.val)
        THEN inner.val
        \* top-level object
        ELSE IF parsed.t = "obj" /\ (someRowArray(parsed) \/ someAggregate(parsed))
        THEN parsed
        \* top-level bare array of objects
        ELSE IF /\ isArray(parsed) /\ Len(parsed.items) > 0
                /\ isObjectType(parsed.items[1]) /\ ~nullish(parsed.items[1])
        THEN O1(T_data, parsed)
        ELSE JNull :
        inner \in {envelopeInner(parsed)} })

\* C23 (SpecCall): getTabularData returns the first accepted candidate in the
\* order top-level .data, envelope inner .data, envelope inner object,
\* top-level object, top-level bare array; the bare array is returned under
\* the field name data.
TabularUnwrappingOrder ==
    pc = "returned" /\ res.fn = "getTabularData" /\ ~parsedOutput.thrown =>
        res.val = firstTabularCandidate(parsedOutput.val)

\* the array fields of the data with an element that is an object with a
\* property, and no null or undefined element among the rows shown
projectedFields ==
    {i \in 1..Len(dataProp.kv) :
        /\ isArray(dataProp.kv[i].v)
        /\ \E j \in 1..Len(dataProp.kv[i].v.items) :
              dataProp.kv[i].v.items[j].t \in {"obj", "arr"} /\ keys(dataProp.kv[i].v.items[j]) # <<>>
        /\ \A j \in 1..Len(dataProp.kv[i].v.items) : j <= 50 => ~nullish(dataProp.kv[i].v.items[j])}

\* the keys of an element that is an object
ownKeys(item) == IF item.t \in {"obj", "arr"} THEN {keys(item)[n] : n \in 1..Len(keys(item))} ELSE {}

\* where a key appears first: the first element that has it, and its place
\* among that element's keys
firstElementWith(items, k) == CHOOSE j \in 1..Len(items) :
    k \in ownKeys(items[j]) /\ \A m \in 1..(j - 1) : k \notin ownKeys(items[m])

placeIn(item, k) == CHOOSE n \in 1..Len(keys(item)) : keys(item)[n] = k

\* C24 (SpecTable): the columns of the table of an array field are the keys
\* of the object elements of the whole array, each once, in the order of
\* their first appearance; every row shown has one cell per column, and the
\* cell of a key the row does not have is the null marker.
ColumnUnion ==
    pc = "rendered" /\ dataProp.t = "obj" =>
        \A i \in projectedFields :
            LET items == dataProp.kv[i].v.items
                t == tableFor(i)
            IN  /\ {t.columns[c] : c \in 1..Len(t.columns)}
                      = UNION {ownKeys(items[j]) : j \in 1..Len(items)}
                /\ \A c, d \in 1..Len(t.columns) :
                      c < d =>
                          /\ t.columns[c] # t.columns[d]
                          /\ \/ firstElementWith(items, t.columns[c]) < firstElementWith(items, t.columns[d])
                             \/ /\ firstElementWith(items, t.columns[c]) = firstElementWith(items, t.columns[d])
                                /\ placeIn(items[firstElementWith(items, t.columns[c])], t.columns[c])
                                      < placeIn(items[firstElementWith(items, t.columns[d])], t.columns[d])
                /\ \A r \in 1..Len(t.rows) :
                      /\ Len(t.rows[r]) = Len(t.columns)
                      /\ \A c \in 1..Len(t.columns) :
                            t.columns[c] \notin ownKeys(items[r]) /\ items[r].t \in {"obj", "arr"}
                                => t.rows[r][c].kind = "null"

\* the positions of the fields of the data whose value is an object with an
\* aggregate key
aggregateFields ==
    {i \in 1..Len(dataProp.kv) :
        /\ dataProp.kv[i].v.t = "obj"
        /\ \E n \in 1..Len(dataProp.kv[i].v.kv) : dataProp.kv[i].v.kv[n].k = T_aggregate}

\* the n-th of them, in field order
aggregateField(n) ==
    CHOOSE i \in aggregateFields : Cardinality({j \in aggregateFields : j < i}) = n - 1

\* the Count cell of a field value: the null marker when aggregate is null or
\* has no count, else the formatted count
countCell(value) ==
    LET agg == value.kv[CHOOSE n \in 1..Len(value.kv) : value.kv[n].k = T_aggregate].v
    IN  IF agg.t = "obj" /\ \E n \in 1..Len(agg.kv) : agg.kv[n].k = T_count
        THEN renderValue(agg.kv[CHOOSE n \in 1..Len(agg.kv) : agg.kv[n].k = T_count].v)
        ELSE [kind |-> "null", text |-> <<"n", "u", "l", "l">>]

\* C25 (SpecTable): the aggregate table has one row per field whose value is
\* an object with an aggregate key, in field order, and no other row; the
\* Count cell is the formatted aggregate.count, or the null marker when
\* aggregate is null or has no count; without such a field there is no
\* aggregate table.
AggregateTable ==
    pc = "rendered" /\ dataProp.t = "obj" =>
        LET rows == res.view.aggregate.rows
        IN  /\ res.view.aggregate.rendered <=> aggregateFields # {}
            /\ Len(rows) = Cardinality(aggregateFields)
            /\ \A n \in 1..Len(rows) :
                  /\ rows[n].field = humanize(dataProp.kv[aggregateField(n)].k)
                  /\ rows[n].count = countCell(dataProp.kv[aggregateField(n)].v)

\* of three fields the first has a count, shown grouped, the second is a
\* number and has no row, and the third has a null aggregate, shown as null
AggregateTableWitness ==
    /\ pc = "rendered"
    /\ dataProp.t = "obj"
    /\ Len(dataProp.kv) = 3
    /\ dataProp.kv[2].v.t = "num"
    /\ res.view.aggregate.rendered
    /\ Len(res.view.aggregate.rows) = 2
    /\ res.view.aggregate.rows[1].count = [kind |-> "number", text |-> <<"1", ",", "2", "3", "4", ",", "5", "6", "7">>]
    /\ res.view.aggregate.rows[2].field = <<"O", "r", "d", "e", "r", " ", "I", "t", "e", "m", "s">>
    /\ res.view.aggregate.rows[2].count.kind = "null"

RECURSIVE grouped(_)
\* the decimal digits of n, a comma before every group of three
grouped(n) ==
    IF n < 1000 THEN natToText(n)
    ELSE grouped(n \div 1000)
         \o <<",">>
         \o natToText((n % 1000) \div 100) \o natToText((n % 100) \div 10) \o natToText(n % 10)

\* the cell the value of a field is to be shown as
cellOf(v) ==
    CASE v.t \in {"null", "undefined"} -> [kind |-> "null", text |-> <<"n", "u", "l", "l">>]
      [] v.t = "bool" ->
            [kind |-> "boolean",
             text |-> IF v.b THEN <<"t", "r", "u", "e">> ELSE <<"f", "a", "l", "s", "e">>]
      [] v.t = "num" ->
            [kind |-> "number",
             text |-> IF v.n < 0 THEN <<"-">> \o grouped(0 - v.n) ELSE grouped(v.n)]
      [] v.t \in {"obj", "arr"} -> [kind |-> "object", text |-> <<"O", "b", "j", "e", "c", "t">>]
      [] v.t = "str" /\ Len(v.s) <= 100 -> [kind |-> "string", text |-> v.s]
      [] v.t = "str" /\ Len(v.s) > 100 ->
            [kind |-> "string", title |-> v.s, text |-> SubSeq(v.s, 1, 100) \o <<".", ".", ".">>]

\* the value of the row under the key: its own property, or undefined
ownValue(item, k) ==
    IF item.t = "obj" /\ \E n \in 1..Len(item.kv) : item.kv[n].k = k
    THEN item.kv[CHOOSE n \in 1..Len(item.kv) : item.kv[n].k = k].v
    ELSE Undefined

\* C26 (SpecTable): every cell of a row object is the cell of its value: the
\* null marker for null and for a missing key, the literal of a boolean, the
\* grouped digits of a number, the Object marker for objects and arrays, a
\* string of up to 100 characters as it is, and a longer one as its first
\* 100 characters and an ellipsis with the whole string as title.
CellFormatting ==
    pc = "rendered" /\ dataProp.t = "obj" =>
        \A i \in projectedFields :
            LET items == dataProp.kv[i].v.items
                t == tableFor(i)
            IN  \A r \in 1..Len(t.rows) : \A c \in 1..Len(t.columns) :
                    items[r].t = "obj" /\ t.columns[c] \notin InheritedKeys
                        => t.rows[r][c] = cellOf(ownValue(items[r], t.columns[c]))

\* a cell shows the first 100 of 101 characters and an ellipsis, and keeps the
\* 101 characters as its title
CellFormattingWitness ==
    /\ pc = "rendered"
    /\ dataProp \in CellData
    /\ res.view.arrays.tables[1].shown
    /\ res.view.arrays.tables[1].rows[2][1].kind = "null"
    /\ \E cell \in {res.view.arrays.tables[1].rows[1][1]} :
          /\ cell.kind = "string"
          /\ Len(cell.text) = 103
          /\ cell.text[100] = "x"
          /\ cell.text[101] = "."
          /\ Len(cell.title) = 101
          /\ cell.title[101] = "z"

hasField(v, k) == v.t = "obj" /\ \E n \in 1..Len(v.kv) : v.kv[n].k = k

\* the value has one of the fields of a schema document, whatever its value
\* (types has to be an array)
exposesSchema(v) ==
    \/ hasField(v, T___schema)
    \/ hasField(v, T_data) /\ hasField(ownValue(v, T_data), T___schema)
    \/ hasField(v, T_types) /\ ownValue(v, T_types).t = "arr"
    \/ hasField(v, T_queryType)
    \/ hasField(v, T_mutationType)
    \/ hasField(v, T_subscriptionType)

\* the same with a value that is not null, false, 0 or the empty string
exposesTruthySchema(v) ==
    \/ truthy(ownValue(v, T___schema))
    \/ truthy(ownValue(ownValue(v, T_data), T___schema))
    \/ ownValue(v, T_types).t = "arr"
    \/ truthy(ownValue(v, T_queryType))
    \/ truthy(ownValue(v, T_mutationType))
    \/ truthy(ownValue(v, T_subscriptionType))

\* C27 as stated (SpecCall): getGraphQLSchemaData matches exactly when the
\* parsed response, or else the parsed text of its envelope, has the field
\* __schema, data.__schema, an array types, or queryType, mutationType or
\* subscriptionType; GraphQLSchemaDisplay accepts the match and takes
\* __schema if present, else data.__schema, else the value as the schema.
SchemaMatchesWhenExposed ==
    /\ pc = "returned" /\ res.fn = "getGraphQLSchemaData" /\ ~parsedOutput.thrown =>
          \A inner \in {envelopeInner(parsedOutput.val)} :
              truthy(res.val) <=>
                  \/ exposesSchema(parsedOutput.val)
                  \/ ~inner.thrown /\ exposesSchema(inner.val)
    /\ pc = "shown" /\ res.fn = "GraphQLSchemaDisplay" =>
          /\ res.view # SchemaNotRendered
          /\ res.view.schema =
                (IF hasField(dataProp, T___schema) THEN ownValue(dataProp, T___schema)
                 ELSE IF hasField(ownValue(dataProp, T_data), T___schema)
                 THEN ownValue(ownValue(dataProp, T_data), T___schema)
                 ELSE dataProp)

\* C27, amended (SpecCall): a field counts when its value is truthy (an
\* array types counts also when empty); the match is the parsed response when
\* it has such a field and else the parsed text of its envelope; the display
\* accepts the match and takes the first truthy of __schema and data.__schema,
\* else the value, as the schema.
SchemaMatchesWhenTruthy ==
    /\ pc = "returned" /\ res.fn = "getGraphQLSchemaData" /\ ~parsedOutput.thrown =>
          \A inner \in {envelopeInner(parsedOutput.val)} :
              res.val = (IF exposesTruthySchema(parsedOutput.val) THEN parsedOutput.val
                         ELSE IF ~inner.thrown /\ exposesTruthySchema(inner.val) THEN inner.val
                         ELSE JNull)
    /\ pc = "shown" /\ res.fn = "GraphQLSchemaDisplay" =>
          /\ res.view # SchemaNotRendered
          /\ res.view.schema =
                (IF truthy(ownValue(dataProp, T___schema)) THEN ownValue(dataProp, T___schema)
                 ELSE IF truthy(ownValue(ownValue(dataProp, T_data), T___schema))
                 THEN ownValue(ownValue(dataProp, T_data), T___schema)
                 ELSE dataProp)

\* the display was given a match with a null __schema next to data.__schema
\* and took the latter as the schema
SchemaMatchesWitness ==
    /\ pc = "shown"
    /\ res.fn = "GraphQLSchemaDisplay"
    /\ hasField(dataProp, T___schema)
    /\ ownValue(dataProp, T___schema) = JNull
    /\ res.view.schema = O1(T_types, JArr(<<>>))
    /\ res.view.types.listed

\* the candidate text of a response: the text of the first element of a text
\* envelope, else the text field of an object, else the response itself
sdlCandidate(text) ==
    The({
        IF /\ ~p.thrown /\ isArray(p.val) /\ Len(p.val.items) > 0
           /\ ownValue(p.val.items[1], T_type) = JStr(T_text)
           /\ hasField(p.val.items[1], T_text)
        THEN ownValue(p.val.items[1], T_text)
        ELSE IF ~p.thrown /\ hasField(p.val, T_text)
        THEN ownValue(p.val, T_text)
        ELSE JStr(text) :
        p \in {JSONparse(text)} })

\* C28 (SpecCall): getGraphQLSDLData matches exactly when the candidate text
\* of the response is a string with both `schema` and `type` in it, and
\* GraphQLSDLDisplay renders what it matches.
SDLMatchesCandidate ==
    pc = "returned" /\ res.fn = "getGraphQLSDLData" /\ output.present =>
        \A candidate \in {sdlCandidate(output.s)} :
            /\ truthy(res.val) <=>
                  /\ candidate.t = "str"
                  /\ includes(candidate.s, T_schema)
                  /\ includes(candidate.s, T_type)
            /\ truthy(res.val) => GraphQLSDLDisplay(res.val).rendered

\* the fields of the parsed request other than k, each with its value
remainingFields(text, k) ==
    The({ IF ~p.thrown /\ p.val.t = "obj" THEN without(p.val.kv, k) ELSE <<>> :
          p \in {JSONparse(text)} })

parsesToObject(text) == \A p \in {JSONparse(text)} : ~p.thrown /\ p.val.t = "obj"

\* C29 (SpecCall): the parameters shown with a query or with code are the
\* fields of the parsed request other than `query` (respectively `code`),
\* each with its own value, and nothing else.
ParametersAreRemainingFields ==
    pc = "returned" /\ truthy(res.val) /\ parsesToObject(input) =>
        /\ res.fn = "getGraphQLQueryData" =>
              QueryDisplay(res.val).otherProps = remainingFields(input, T_query)
        /\ res.fn = "getPythonCodeData" =>
              PythonCodeDisplay(res.val).otherProps = remainingFields(input, T_code)

\* the part of C29 about queries
QueryParametersAreRemainingFields ==
    pc = "returned" /\ truthy(res.val) /\ parsesToObject(input)
       /\ res.fn = "getGraphQLQueryData" =>
            QueryDisplay(res.val).otherProps = remainingFields(input, T_query)

RECURSIVE unescaped(_, _, _, _)
\* the text from position i on, read once from left to right: a backslash
\* before n, quote or t stands for a newline, a quote or `tab`; where `halve`,
\* a backslash before a backslash that does not itself start one of these
\* stands for one backslash; every other character stands for itself
unescaped(s, i, tab, halve) ==
    IF i > Len(s) THEN <<>>
    ELSE IF s[i] = BSL /\ i < Len(s) /\ s[i + 1] = "n"
    THEN <<NL>> \o unescaped(s, i + 2, tab, halve)
    ELSE IF s[i] = BSL /\ i < Len(s) /\ s[i + 1] = QUOTE
    THEN <<QUOTE>> \o unescaped(s, i + 2, tab, halve)
    ELSE IF s[i] = BSL /\ i < Len(s) /\ s[i + 1] = "t"
    THEN tab \o unescaped(s, i + 2, tab, halve)
    ELSE IF /\ halve
            /\ s[i] = BSL /\ i < Len(s) /\ s[i + 1] = BSL
            /\ ~(i + 1 < Len(s) /\ s[i + 2] \in {"n", QUOTE, "t"})
    THEN <<BSL>> \o unescaped(s, i + 2, tab, halve)
    ELSE <<s[i]>> \o unescaped(s, i + 1, tab, halve)

====
